---- MODULE Spec2Model ----
(***************************************************************************)
(* Model of wix_to_wordpress_migrator.py: the field resolvers of           *)
(* WixBlogScraper, the date normalizer, the content normalizer             *)
(* clean_wix_content, the export serializer create_wordpress_xml and the   *)
(* driver loop of main.                                                    *)
(*                                                                         *)
(* A Python string is a sequence of one-character strings.  An HTML string *)
(* is a sequence of tokens (start tag, end tag, empty-element tag, text    *)
(* run); a parsed document is a forest of nodes.  Parse and Serialize      *)
(* convert between the two as html.parser / BeautifulSoup do.              *)
(***************************************************************************)
EXTENDS Integers, Sequences, FiniteSets, TLC

VARIABLES
    raw,        \* clean_wix_content: the string handed to the first call
    content,    \* clean_wix_content: the current string
    prev,       \* clean_wix_content: the argument of the latest call
    runs,       \* clean_wix_content: number of calls made so far
    title_case, \* extract_title: the test case the parsed document is built from
    title_out,  \* extract_title: the returned title
    date_in,    \* parse_date: the test case the argument is built from
    parsed,     \* parse_date: the returned value
    pc,         \* main: the step it is at
    driver,     \* WixBlogScraper.driver is set (Selenium is available)
    all_urls,   \* main: the list get_all_blog_post_urls returned
    idx,        \* main: index of the next URL of the scraping loop
    all_posts,  \* main: the accepted post records
    found,      \* get_all_blog_post_urls: some URL was found by two methods
    log,        \* what scrape_post logged for each call, with what it fetched
    items,      \* create_wordpress_xml: the items written
    clock,      \* create_wordpress_xml: what datetime.now() returned, per post
    cpc,          \* clean_wix_content run step by step: the step it is at
    tree,         \* clean_wix_content: soup, the parsed content
    changes_made, \* clean_wix_content: changes_made of the div loop
    iteration,    \* clean_wix_content: iteration of the div loop
    passes,       \* the soup before the div loop and after each of its passes
    doc_case,     \* the resolvers: the test case the document is built from
    soup_now,     \* the resolvers: the parsed document they are called on
    resolved      \* the resolvers: what each one returned

cleanVars == <<raw, content, prev, runs>>
titleVars == <<title_case, title_out>>
dateVars  == <<date_in, parsed>>
mainVars  == <<pc, driver, all_urls, idx, all_posts, found, log, items, clock>>
loopVars  == <<cpc, tree, changes_made, iteration, passes>>
fieldVars == <<doc_case, soup_now, resolved>>
vars == <<raw, content, prev, runs, title_case, title_out, date_in, parsed,
          pc, driver, all_urls, idx, all_posts, found, log, items, clock,
          cpc, tree, changes_made, iteration, passes,
          doc_case, soup_now, resolved>>

(***************************************************************************)
(* Characters and strings                                                  *)
(***************************************************************************)
\* U+00A0; Python's str.strip() and the regex class \s both treat it as
\* whitespace.
NBSP == "NBSP"

IsSpace(c) == c \in {" ", "\t", "\n", "\r", NBSP}

SetMin(S) == CHOOSE x \in S : \A y \in S : x <= y
SetMax(S) == CHOOSE x \in S : \A y \in S : x >= y

\* the first index from i on, and the last index up to i, that holds no
\* whitespace (Len(s) + 1 and 0 when there is none)
RECURSIVE FirstNonSpace(_, _)
FirstNonSpace(s, i) ==
    IF i > Len(s) \/ ~IsSpace(s[i]) THEN i ELSE FirstNonSpace(s, i + 1)
RECURSIVE LastNonSpace(_, _)
LastNonSpace(s, i) ==
    IF i < 1 \/ ~IsSpace(s[i]) THEN i ELSE LastNonSpace(s, i - 1)

\* str.lstrip() / str.rstrip()
LStrip(s) == SubSeq(s, FirstNonSpace(s, 1), Len(s))
RStrip(s) == SubSeq(s, 1, LastNonSpace(s, Len(s)))

\* str.strip()
Strip(s) == RStrip(LStrip(s))

AllSpace(s) == \A i \in 1..Len(s) : IsSpace(s[i])

\* the literal six characters &nbsp; (what the source compares text with)
NbspEntity == <<"&", "n", "b", "s", "p", ";">>

(***************************************************************************)
(* Parsed tree (bs4 Tag / NavigableString)                                 *)
(***************************************************************************)
TextName == "#text"

Text(s) == [name |-> TextName, attrs |-> <<>>, kids |-> <<>>, s |-> s]
El(n, a, k) == [name |-> n, attrs |-> a, kids |-> k, s |-> <<>>]

IsTag(n) == n.name # TextName

\* Tag.has_attr / Tag.get; an attribute list is a sequence of <<key, value>>
HasAttr(n, k) == \E i \in 1..Len(n.attrs) : n.attrs[i][1] = k
GetAttr(n, k) ==
    IF HasAttr(n, k)
    THEN n.attrs[CHOOSE i \in 1..Len(n.attrs) : n.attrs[i][1] = k][2]
    ELSE <<>>
\* truth value of tag.get(k): absent (None) and "" are both falsy
AttrTruthy(n, k) == HasAttr(n, k) /\ GetAttr(n, k) # <<>>

\* bs4.builder.HTMLTreeBuilder.empty_element_tags
VoidTags == {"area", "base", "br", "col", "embed", "hr", "img", "input",
             "keygen", "link", "menuitem", "meta", "param", "source",
             "track", "wbr"}

\* Tag.get_text(): every descendant string, concatenated
RECURSIVE GetText(_)
GetText(f) ==
    IF f = <<>> THEN <<>>
    ELSE LET n == Head(f)
         IN  (IF IsTag(n) THEN GetText(n.kids) ELSE n.s) \o GetText(Tail(f))

\* Tag.get_text(strip=True): every descendant string stripped, empty ones
\* dropped, concatenated
RECURSIVE GetTextStrip(_)
GetTextStrip(f) ==
    IF f = <<>> THEN <<>>
    ELSE LET n == Head(f)
         IN  (IF IsTag(n) THEN GetTextStrip(n.kids) ELSE Strip(n.s))
             \o GetTextStrip(Tail(f))

\* Tag.find(names) is not None: some descendant element has one of the names
RECURSIVE HasDesc(_, _)
HasDesc(f, names) ==
    IF f = <<>> THEN FALSE
    ELSE LET n == Head(f)
         IN  \/ IsTag(n) /\ n.name \in names
             \/ IsTag(n) /\ HasDesc(n.kids, names)
             \/ HasDesc(Tail(f), names)

(***************************************************************************)
(* HTML strings: Serialize (str(soup)) and Parse (BeautifulSoup(html,      *)
(* 'html.parser'))                                                         *)
(***************************************************************************)
TokOpen(n, a)  == [t |-> "open",  name |-> n, attrs |-> a, s |-> <<>>, sp |-> FALSE]
TokClose(n)    == [t |-> "close", name |-> n, attrs |-> <<>>, s |-> <<>>, sp |-> FALSE]
\* sp: written "<br />" (with a space) rather than "<br/>"
TokVoid(n, a, sp) == [t |-> "void", name |-> n, attrs |-> a, s |-> <<>>, sp |-> sp]
TokText(s)     == [t |-> "text",  name |-> TextName, attrs |-> <<>>, s |-> s, sp |-> FALSE]

\* a string has no empty text run and no two adjacent text runs
RECURSIVE MergeText(_)
MergeText(toks) ==
    IF toks = <<>> THEN <<>>
    ELSE LET h == Head(toks)
             r == MergeText(Tail(toks))
         IN  IF h.t = "text" /\ h.s = <<>> THEN r
             ELSE IF h.t = "text" /\ r # <<>> /\ Head(r).t = "text"
                  THEN <<TokText(h.s \o Head(r).s)>> \o Tail(r)
                  ELSE <<h>> \o r

RECURSIVE SerializeRaw(_)
SerializeRaw(f) ==
    IF f = <<>> THEN <<>>
    ELSE LET n == Head(f)
             me == IF ~IsTag(n) THEN <<TokText(n.s)>>
                   ELSE IF n.name \in VoidTags /\ n.kids = <<>>
                        THEN <<TokVoid(n.name, n.attrs, FALSE)>>
                        ELSE <<TokOpen(n.name, n.attrs)>>
                             \o SerializeRaw(n.kids)
                             \o <<TokClose(n.name)>>
         IN  me \o SerializeRaw(Tail(f))

\* str(soup) / str(elem)
Serialize(f) == MergeText(SerializeRaw(f))

\* the tree builder's stack of open elements; the bottom frame is the
\* BeautifulSoup object itself
RootName == "[document]"
Frame(n, a) == [name |-> n, attrs |-> a, kids |-> <<>>]

AppendKid(stack, node) ==
    LET top == stack[Len(stack)]
        merged ==
            IF /\ ~IsTag(node) /\ top.kids # <<>>
               /\ ~IsTag(top.kids[Len(top.kids)])
            THEN [top.kids EXCEPT ![Len(top.kids)] =
                        Text(top.kids[Len(top.kids)].s \o node.s)]
            ELSE Append(top.kids, node)
    IN  [stack EXCEPT ![Len(stack)] = [top EXCEPT !.kids = merged]]

\* close the innermost open element
PopOne(stack) ==
    LET top == stack[Len(stack)]
    IN  AppendKid(SubSeq(stack, 1, Len(stack) - 1),
                  El(top.name, top.attrs, top.kids))

RECURSIVE PopTo(_, _)
PopTo(stack, name) ==
    IF Len(stack) <= 1 THEN stack
    ELSE IF stack[Len(stack)].name = name THEN PopOne(stack)
         ELSE PopTo(PopOne(stack), name)

RECURSIVE PopAll(_)
PopAll(stack) == IF Len(stack) <= 1 THEN stack ELSE PopAll(PopOne(stack))

RECURSIVE ParseFrom(_, _, _)
ParseFrom(toks, i, stack) ==
    IF i > Len(toks) THEN PopAll(stack)[1].kids
    ELSE LET k == toks[i]
         IN  CASE k.t = "text" ->
                    ParseFrom(toks, i + 1, AppendKid(stack, Text(k.s)))
               [] k.t = "void" ->
                    ParseFrom(toks, i + 1,
                              AppendKid(stack, El(k.name, k.attrs, <<>>)))
               [] k.t = "open" ->
                    IF k.name \in VoidTags
                    THEN ParseFrom(toks, i + 1,
                                   AppendKid(stack, El(k.name, k.attrs, <<>>)))
                    ELSE ParseFrom(toks, i + 1,
                                   Append(stack, Frame(k.name, k.attrs)))
               [] OTHER ->
                    IF /\ k.name \notin VoidTags
                       /\ \E j \in 2..Len(stack) : stack[j].name = k.name
                    THEN ParseFrom(toks, i + 1, PopTo(stack, k.name))
                    ELSE ParseFrom(toks, i + 1, stack)

\* BeautifulSoup(content, 'html.parser'): the children of the soup object
Parse(toks) == ParseFrom(toks, 1, <<Frame(RootName, <<>>)>>)

(***************************************************************************)
(* clean_wix_content, the tree passes.  Every loop of the source iterates  *)
(* over a find_all() result, a list made before the loop starts, in        *)
(* document order; an element's test reads only its own subtree, which no  *)
(* earlier iteration has touched, so each pass is a recursion on the tree. *)
(***************************************************************************)
UnwantedTags == {"script", "style", "button", "nav", "header", "footer"}

\* for element in soup([...]): element.decompose()
RECURSIVE RemoveNamed(_, _)
RemoveNamed(f, names) ==
    IF f = <<>> THEN <<>>
    ELSE LET n == Head(f)
             r == RemoveNamed(Tail(f), names)
         IN  IF ~IsTag(n) THEN <<n>> \o r
             ELSE IF n.name \in names THEN r
                  ELSE <<[n EXCEPT !.kids = RemoveNamed(n.kids, names)]>> \o r

\* for svg in soup.find_all('svg'): if not svg.get('alt'): svg.decompose()
RECURSIVE RemoveSvg(_)
RemoveSvg(f) ==
    IF f = <<>> THEN <<>>
    ELSE LET n == Head(f)
             r == RemoveSvg(Tail(f))
         IN  IF ~IsTag(n) THEN <<n>> \o r
             ELSE IF n.name = "svg" /\ ~AttrTruthy(n, "alt") THEN r
                  ELSE <<[n EXCEPT !.kids = RemoveSvg(n.kids)]>> \o r

EssentialAttrs == <<"src", "alt", "title", "width", "height", "srcset", "loading">>

\* essential_attrs, built in the order of the whitelist
RECURSIVE PickAttrs(_, _)
PickAttrs(n, i) ==
    IF i > Len(EssentialAttrs) THEN <<>>
    ELSE (IF HasAttr(n, EssentialAttrs[i])
          THEN << <<EssentialAttrs[i], GetAttr(n, EssentialAttrs[i])>> >>
          ELSE <<>>) \o PickAttrs(n, i + 1)

RECURSIVE StripAttrs(_)
StripAttrs(f) ==
    IF f = <<>> THEN <<>>
    ELSE LET n == Head(f)
             r == StripAttrs(Tail(f))
         IN  IF ~IsTag(n) THEN <<n>> \o r
             ELSE IF n.name = "img"
                  THEN <<[n EXCEPT !.attrs = PickAttrs(n, 1),
                                   !.kids = StripAttrs(n.kids)]>> \o r
                  ELSE <<[n EXCEPT !.attrs = <<>>,
                                   !.kids = StripAttrs(n.kids)]>> \o r

\* for figure in soup.find_all('figure'): if not figure.find('img'): unwrap
RECURSIVE UnwrapFigures(_)
UnwrapFigures(f) ==
    IF f = <<>> THEN <<>>
    ELSE LET n == Head(f)
             r == UnwrapFigures(Tail(f))
         IN  IF ~IsTag(n) THEN <<n>> \o r
             ELSE IF n.name = "figure" /\ ~HasDesc(n.kids, {"img"})
                  THEN UnwrapFigures(n.kids) \o r
                  ELSE <<[n EXCEPT !.kids = UnwrapFigures(n.kids)]>> \o r

MeaningfulTags == {"p", "h1", "h2", "h3", "h4", "h5", "h6", "figure", "img",
                   "ul", "ol", "blockquote", "strong", "em", "a"}
MaxDivChildren == 5
max_iterations == 15

\* the test of one div without "or len(children) == 1"
DivUnwraps_MeaningfulOnly(n) ==
    /\ n.name = "div"
    /\ Len(n.kids) <= MaxDivChildren
    /\ \E i \in 1..Len(n.kids) : n.kids[i].name \in MeaningfulTags

\* the test of one div inside the while loop
DivUnwraps(n) ==
    /\ n.name = "div"
    /\ Len(n.kids) <= MaxDivChildren
    /\ \/ \E i \in 1..Len(n.kids) : n.kids[i].name \in MeaningfulTags
       \/ Len(n.kids) = 1

\* one pass of "for div in soup.find_all('div')"
RECURSIVE DivPass(_)
DivPass(f) ==
    IF f = <<>> THEN <<>>
    ELSE LET n == Head(f)
             r == DivPass(Tail(f))
         IN  IF ~IsTag(n) THEN <<n>> \o r
             ELSE IF DivUnwraps(n) THEN DivPass(n.kids) \o r
                  ELSE <<[n EXCEPT !.kids = DivPass(n.kids)]>> \o r

\* changes_made after one pass: some div was unwrapped
RECURSIVE AnyDivUnwraps(_)
AnyDivUnwraps(f) ==
    IF f = <<>> THEN FALSE
    ELSE LET n == Head(f)
         IN  \/ IsTag(n) /\ DivUnwraps(n)
             \/ IsTag(n) /\ AnyDivUnwraps(n.kids)
             \/ AnyDivUnwraps(Tail(f))

\* while changes_made and iteration < max_iterations
RECURSIVE CollapseDivs(_, _, _)
CollapseDivs(f, changed, iter) ==
    IF changed /\ iter < max_iterations
    THEN CollapseDivs(DivPass(f), AnyDivUnwraps(f), iter + 1)
    ELSE f

\* text in ['&nbsp;', ' ', ' '] or not text, on stripped text
BlankText(text) ==
    text = <<>> \/ text = NbspEntity \/ text = <<" ">> \/ text = <<NBSP>>

\* for span in soup.find_all('span')
RECURSIVE CleanSpans(_)
CleanSpans(f) ==
    IF f = <<>> THEN <<>>
    ELSE LET n == Head(f)
             r == CleanSpans(Tail(f))
         IN  IF ~IsTag(n) THEN <<n>> \o r
             ELSE IF n.name = "span" /\ BlankText(GetTextStrip(n.kids)) THEN r
                  ELSE IF /\ n.name = "span"
                          /\ ~AttrTruthy(n, "style") /\ ~AttrTruthy(n, "class")
                       THEN CleanSpans(n.kids) \o r
                       ELSE <<[n EXCEPT !.kids = CleanSpans(n.kids)]>> \o r

\* for p in soup.find_all('p')
RECURSIVE RemoveEmptyParagraphs(_)
RemoveEmptyParagraphs(f) ==
    IF f = <<>> THEN <<>>
    ELSE LET n == Head(f)
             r == RemoveEmptyParagraphs(Tail(f))
         IN  IF ~IsTag(n) THEN <<n>> \o r
             ELSE IF n.name = "p" /\ BlankText(GetTextStrip(n.kids)) THEN r
                  ELSE <<[n EXCEPT !.kids = RemoveEmptyParagraphs(n.kids)]>> \o r

\* for link in soup.find_all('a')
RECURSIVE CleanLinks(_)
CleanLinks(f) ==
    IF f = <<>> THEN <<>>
    ELSE LET n == Head(f)
             r == CleanLinks(Tail(f))
         IN  IF ~IsTag(n) THEN <<n>> \o r
             ELSE IF n.name = "a" /\ HasAttr(n, "href")
                  THEN <<[n EXCEPT !.attrs = << <<"href", GetAttr(n, "href")>> >>,
                                   !.kids = CleanLinks(n.kids)]>> \o r
                  ELSE IF n.name = "a" THEN CleanLinks(n.kids) \o r
                       ELSE <<[n EXCEPT !.kids = CleanLinks(n.kids)]>> \o r

KeptEmptyTags == {"img", "br", "hr"}

\* for element in soup.find_all(): the empty-element sweep
RECURSIVE RemoveEmptyElements(_)
RemoveEmptyElements(f) ==
    IF f = <<>> THEN <<>>
    ELSE LET n == Head(f)
             r == RemoveEmptyElements(Tail(f))
         IN  IF ~IsTag(n) THEN <<n>> \o r
             ELSE IF /\ n.name \notin KeptEmptyTags
                     /\ GetTextStrip(n.kids) = <<>>
                     /\ ~HasDesc(n.kids, KeptEmptyTags)
                  THEN r
                  ELSE <<[n EXCEPT !.kids = RemoveEmptyElements(n.kids)]>> \o r

\* lines 410-508: the soup after all tree passes
CleanTree(f) ==
    LET s1 == RemoveNamed(f, UnwantedTags)
        s2 == RemoveSvg(s1)
        s3 == StripAttrs(s2)
        s4 == UnwrapFigures(s3)
        s5 == CollapseDivs(s4, TRUE, 0)
        s6 == CleanSpans(s5)
        s7 == RemoveEmptyParagraphs(s6)
        s8 == CleanLinks(s7)
    IN  RemoveEmptyElements(s8)

(***************************************************************************)
(* clean_wix_content, the re.sub calls on the serialized string.  Text is  *)
(* serialized with & < > escaped, so a tag pattern matches tags only; \s*  *)
(* between two tags matches nothing or one all-whitespace text run.        *)
(***************************************************************************)
IsBareOpen(k, name) == k.t = "open" /\ k.name = name /\ k.attrs = <<>>
IsCloseOf(k, name)  == k.t = "close" /\ k.name = name
\* <br\s*/?> : "<br/>" and "<br />"
IsBr(k) == k.t = "void" /\ k.name = "br" /\ k.attrs = <<>>

\* the index after an optional whitespace run at i
SkipWs(toks, i) ==
    IF i <= Len(toks) /\ toks[i].t = "text" /\ AllSpace(toks[i].s)
    THEN i + 1 ELSE i

\* end (exclusive) of a match of <name>\s*</name> at i, or 0
EmptyPairEnd(toks, i, name) ==
    LET j == SkipWs(toks, i + 1)
    IN  IF /\ IsBareOpen(toks[i], name)
           /\ j <= Len(toks) /\ IsCloseOf(toks[j], name)
        THEN j + 1 ELSE 0

\* re.sub(r'<name>\s*</name>', '', s)
RECURSIVE SubEmptyPair(_, _, _)
SubEmptyPair(toks, i, name) ==
    IF i > Len(toks) THEN <<>>
    ELSE LET e == EmptyPairEnd(toks, i, name)
         IN  IF e > 0 THEN SubEmptyPair(toks, e, name)
             ELSE <<toks[i]>> \o SubEmptyPair(toks, i + 1, name)

\* end (exclusive) of a match of <span>\s*<br\s*/?>\s*</span> at i, or 0
SpanBrEnd(toks, i) ==
    LET j == SkipWs(toks, i + 1)
        k == SkipWs(toks, j + 1)
    IN  IF /\ IsBareOpen(toks[i], "span")
           /\ j <= Len(toks) /\ IsBr(toks[j])
           /\ k <= Len(toks) /\ IsCloseOf(toks[k], "span")
        THEN k + 1 ELSE 0

\* re.sub(r'<span>\s*<br\s*/?>\s*</span>', '<br />', s)
RECURSIVE SubSpanBr(_, _)
SubSpanBr(toks, i) ==
    IF i > Len(toks) THEN <<>>
    ELSE LET e == SpanBrEnd(toks, i)
         IN  IF e > 0 THEN <<TokVoid("br", <<>>, TRUE)>> \o SubSpanBr(toks, e)
             ELSE <<toks[i]>> \o SubSpanBr(toks, i + 1)

\* end (exclusive) of a match of <br\s*/?>\s*<br\s*/?>\s*<br\s*/?>+ at i,
\* or 0; the final + repeats only the character ">", which never follows a
\* tag unescaped
TripleBrEnd(toks, i) ==
    LET j == SkipWs(toks, i + 1)
        k == SkipWs(toks, j + 1)
    IN  IF /\ IsBr(toks[i])
           /\ j <= Len(toks) /\ IsBr(toks[j])
           /\ k <= Len(toks) /\ IsBr(toks[k])
        THEN k + 1 ELSE 0

\* re.sub(r'<br\s*/?>\s*<br\s*/?>\s*<br\s*/?>+', '<br /><br />', s)
RECURSIVE SubTripleBr(_, _)
SubTripleBr(toks, i) ==
    IF i > Len(toks) THEN <<>>
    ELSE LET e == TripleBrEnd(toks, i)
         IN  IF e > 0
             THEN <<TokVoid("br", <<>>, TRUE), TokVoid("br", <<>>, TRUE)>>
                  \o SubTripleBr(toks, e)
             ELSE <<toks[i]>> \o SubTripleBr(toks, i + 1)

\* the last newline of the whitespace run that starts at i
LastNewlineOfRun(s, i) ==
    LET runEnd == SetMax({j \in i..Len(s) : \A m \in i..j : IsSpace(s[m])})
    IN  SetMax({j \in i..runEnd : s[j] = "\n"})

NewlinesInRun(s, i) ==
    Cardinality({j \in i..LastNewlineOfRun(s, i) : s[j] = "\n"})

\* re.sub(r'\n\s*\n\s*\n+', '\n\n', s) inside one text run
RECURSIVE SubBlankLinesIn(_, _)
SubBlankLinesIn(s, i) ==
    IF i > Len(s) THEN <<>>
    ELSE IF s[i] = "\n" /\ NewlinesInRun(s, i) >= 3
         THEN <<"\n", "\n">> \o SubBlankLinesIn(s, LastNewlineOfRun(s, i) + 1)
         ELSE <<s[i]>> \o SubBlankLinesIn(s, i + 1)

SubBlankLines(toks) ==
    [i \in 1..Len(toks) |->
        IF toks[i].t = "text" /\ \E j \in 1..Len(toks[i].s) : toks[i].s[j] = "\n"
        THEN TokText(SubBlankLinesIn(toks[i].s, 1))
        ELSE toks[i]]

\* str.strip() of an HTML string: only a leading or trailing text run can
\* hold whitespace
StripTokens(toks) ==
    LET a == IF toks # <<>> /\ Head(toks).t = "text"
             THEN <<TokText(LStrip(Head(toks).s))>> \o Tail(toks)
             ELSE toks
        b == IF a # <<>> /\ a[Len(a)].t = "text"
             THEN SubSeq(a, 1, Len(a) - 1) \o <<TokText(RStrip(a[Len(a)].s))>>
             ELSE a
    IN  MergeText(b)

\* lines 511-518
PostProcess(toks) ==
    LET r1 == MergeText(SubEmptyPair(toks, 1, "span"))
        r2 == MergeText(SubSpanBr(r1, 1))
        r3 == MergeText(SubTripleBr(r2, 1))
        r4 == SubBlankLines(r3)
        r5 == MergeText(SubEmptyPair(r4, 1, "p"))
    IN  StripTokens(r5)

\* clean_wix_content(content)
clean_wix_content(c) ==
    IF c = <<>> THEN <<>>
    ELSE PostProcess(Serialize(CleanTree(Parse(c))))

(***************************************************************************)
(* Letters, digits and numbers                                             *)
(***************************************************************************)
UpperLetters == <<"A", "B", "C", "D", "E", "F", "G", "H", "I", "J", "K", "L", "M", "N", "O", "P", "Q", "R", "S", "T", "U", "V", "W", "X", "Y", "Z">>
LowerLetters == <<"a", "b", "c", "d", "e", "f", "g", "h", "i", "j", "k", "l", "m", "n", "o", "p", "q", "r", "s", "t", "u", "v", "w", "x", "y", "z">>
Digits == <<"0", "1", "2", "3", "4", "5", "6", "7", "8", "9">>

\* str.lower(), one character
LowerChar(c) ==
    IF \E i \in 1..26 : UpperLetters[i] = c
    THEN LowerLetters[CHOOSE i \in 1..26 : UpperLetters[i] = c]
    ELSE c

\* str.lower()
Lower(s) == [i \in 1..Len(s) |-> LowerChar(s[i])]

\* str.startswith(p)
StartsWith(s, p) == Len(s) >= Len(p) /\ SubSeq(s, 1, Len(p)) = p

\* c in s
Contains(s, c) == \E i \in 1..Len(s) : s[i] = c

IsDigit(c) == \E i \in 1..10 : Digits[i] = c
DigitVal(c) == (CHOOSE i \in 1..10 : Digits[i] = c) - 1

RECURSIVE Pow10(_)
Pow10(n) == IF n = 0 THEN 1 ELSE 10 * Pow10(n - 1)

\* int(s) of a digit string
RECURSIVE NumVal(_)
NumVal(s) ==
    IF s = <<>> THEN 0
    ELSE NumVal(SubSeq(s, 1, Len(s) - 1)) * 10 + DigitVal(s[Len(s)])

\* '%0wd' % n
ZeroPad(n, w) == [i \in 1..w |-> Digits[((n \div Pow10(w - i)) % 10) + 1]]

AllDigits(s, i, j) == j <= Len(s) /\ \A m \in i..j : IsDigit(s[m])

(***************************************************************************)
(* datetime.strptime: the format is compiled to a regular expression       *)
(* (case-insensitive, alternatives tried in order, with backtracking); the *)
(* first match must consume the whole string and must be a real date.      *)
(***************************************************************************)
MonthNames == <<
    <<"j", "a", "n", "u", "a", "r", "y">>,
    <<"f", "e", "b", "r", "u", "a", "r", "y">>,
    <<"m", "a", "r", "c", "h">>,
    <<"a", "p", "r", "i", "l">>,
    <<"m", "a", "y">>,
    <<"j", "u", "n", "e">>,
    <<"j", "u", "l", "y">>,
    <<"a", "u", "g", "u", "s", "t">>,
    <<"s", "e", "p", "t", "e", "m", "b", "e", "r">>,
    <<"o", "c", "t", "o", "b", "e", "r">>,
    <<"n", "o", "v", "e", "m", "b", "e", "r">>,
    <<"d", "e", "c", "e", "m", "b", "e", "r">> >>

\* a parsed broken-down time before validation; strptime's defaults
DefaultFields == [Y |-> 1900, m |-> 1, d |-> 1, H |-> 0, M |-> 0, S |-> 0, f |-> 0]

IsLeap(y) == (y % 4 = 0 /\ y % 100 # 0) \/ y % 400 = 0
DaysIn(y, m) ==
    IF m \in {4, 6, 9, 11} THEN 30
    ELSE IF m = 2 THEN (IF IsLeap(y) THEN 29 ELSE 28)
    ELSE 31

\* datetime(...) accepts the fields
ValidFields(v) ==
    /\ v.Y >= 1 /\ v.m \in 1..12 /\ v.d \in 1..DaysIn(v.Y, v.m)
    /\ v.H \in 0..23 /\ v.M \in 0..59 /\ v.S \in 0..59

\* the two-digit number at j when it lies in lo..hi
TwoDigit(s, j, lo, hi) ==
    IF AllDigits(s, j, j + 1) /\ NumVal(SubSeq(s, j, j + 1)) \in lo..hi
    THEN << <<2, NumVal(SubSeq(s, j, j + 1))>> >>
    ELSE <<>>

\* the one-digit number at j when it lies in lo..hi
OneDigit(s, j, lo, hi) ==
    IF AllDigits(s, j, j) /\ DigitVal(s[j]) \in lo..hi
    THEN << <<1, DigitVal(s[j])>> >>
    ELSE <<>>

\* the month names (cut to n letters when n > 0) that match at j, longest
\* first
NameCands(s, j, n) ==
    LET nm(i) == IF n > 0 THEN SubSeq(MonthNames[i], 1, n) ELSE MonthNames[i]
        hit(i) == /\ j + Len(nm(i)) - 1 <= Len(s)
                  /\ Lower(SubSeq(s, j, j + Len(nm(i)) - 1)) = nm(i)
        hits == {i \in 1..12 : hit(i)}
        RECURSIVE Order(_)
        Order(S) ==
            IF S = {} THEN <<>>
            ELSE LET i == CHOOSE x \in S :
                            \A y \in S : \/ Len(nm(x)) > Len(nm(y))
                                         \/ Len(nm(x)) = Len(nm(y)) /\ x <= y
                 IN  << <<Len(nm(i)), i>> >> \o Order(S \ {i})
    IN  Order(hits)

\* [0-9]{1,6}, greedy; the value is the digits padded right to six
RECURSIVE FracCands(_, _, _)
FracCands(s, j, n) ==
    IF n = 0 THEN <<>>
    ELSE (IF AllDigits(s, j, j + n - 1)
          THEN << <<n, NumVal(SubSeq(s, j, j + n - 1)) * Pow10(6 - n)>> >>
          ELSE <<>>) \o FracCands(s, j, n - 1)

\* \s+, greedy
RECURSIVE SpaceCands(_, _, _)
SpaceCands(s, j, n) ==
    IF n = 0 THEN <<>>
    ELSE (IF j + n - 1 <= Len(s) /\ \A m \in j..(j + n - 1) : IsSpace(s[m])
          THEN << <<n, 0>> >> ELSE <<>>) \o SpaceCands(s, j, n - 1)

\* what one format item can consume at j: <<length, value>> in the order
\* the regular expression tries them
DirCands(dir, s, j) ==
    CASE dir = "%Y" ->
            IF AllDigits(s, j, j + 3)
            THEN << <<4, NumVal(SubSeq(s, j, j + 3))>> >> ELSE <<>>
      [] dir = "%m" -> TwoDigit(s, j, 1, 12) \o OneDigit(s, j, 1, 9)
      [] dir = "%d" ->
            TwoDigit(s, j, 1, 31) \o OneDigit(s, j, 1, 9)
            \o (IF j + 1 <= Len(s) /\ s[j] = " "
                THEN [i \in DOMAIN OneDigit(s, j + 1, 1, 9) |->
                          <<2, OneDigit(s, j + 1, 1, 9)[i][2]>>]
                ELSE <<>>)
      [] dir = "%H" -> TwoDigit(s, j, 0, 23) \o OneDigit(s, j, 0, 9)
      [] dir = "%M" -> TwoDigit(s, j, 0, 59) \o OneDigit(s, j, 0, 9)
      [] dir = "%S" -> TwoDigit(s, j, 0, 61) \o OneDigit(s, j, 0, 9)
      [] dir = "%f" -> FracCands(s, j, 6)
      [] dir = "%B" -> NameCands(s, j, 0)
      [] dir = "%b" -> NameCands(s, j, 3)
      [] dir = " "  -> SpaceCands(s, j, Len(s) - j + 1)
      [] OTHER ->
            IF j <= Len(s) /\ LowerChar(s[j]) = LowerChar(dir)
            THEN << <<1, 0>> >> ELSE <<>>

SetField(v, dir, x) ==
    CASE dir = "%Y" -> [v EXCEPT !.Y = x]
      [] dir = "%m" -> [v EXCEPT !.m = x]
      [] dir = "%B" -> [v EXCEPT !.m = x]
      [] dir = "%b" -> [v EXCEPT !.m = x]
      [] dir = "%d" -> [v EXCEPT !.d = x]
      [] dir = "%H" -> [v EXCEPT !.H = x]
      [] dir = "%M" -> [v EXCEPT !.M = x]
      [] dir = "%S" -> [v EXCEPT !.S = x]
      [] dir = "%f" -> [v EXCEPT !.f = x]
      [] OTHER -> v

NoMatch == [ok |-> FALSE, end |-> 0, v |-> DefaultFields]

\* the first match of format items k.. against s from j
RECURSIVE MatchFrom(_, _, _, _, _)
RECURSIVE TryCands(_, _, _, _, _, _, _)
MatchFrom(fmt, k, s, j, v) ==
    IF k > Len(fmt) THEN [ok |-> TRUE, end |-> j, v |-> v]
    ELSE TryCands(fmt, k, s, j, v, DirCands(fmt[k], s, j), 1)
TryCands(fmt, k, s, j, v, cands, c) ==
    IF c > Len(cands) THEN NoMatch
    ELSE LET r == MatchFrom(fmt, k + 1, s, j + cands[c][1],
                            SetField(v, fmt[k], cands[c][2]))
         IN  IF r.ok THEN r ELSE TryCands(fmt, k, s, j, v, cands, c + 1)

\* datetime.strptime(s, fmt): ok is FALSE where Python raises ValueError
Strptime(s, fmt) ==
    LET r == MatchFrom(fmt, 1, s, 1, DefaultFields)
    IN  IF r.ok /\ r.end = Len(s) + 1 /\ ValidFields(r.v) THEN r ELSE NoMatch

\* datetime.isoformat() of a naive datetime
IsoFormat(v) ==
    ZeroPad(v.Y, 4) \o <<"-">> \o ZeroPad(v.m, 2) \o <<"-">> \o ZeroPad(v.d, 2)
    \o <<"T">> \o ZeroPad(v.H, 2) \o <<":">> \o ZeroPad(v.M, 2)
    \o <<":">> \o ZeroPad(v.S, 2)
    \o (IF v.f # 0 THEN <<".">> \o ZeroPad(v.f, 6) ELSE <<>>)

(***************************************************************************)
(* WixBlogScraper.parse_date                                               *)
(***************************************************************************)
\* Python's None where a string is expected
None == <<"None">>

\* the list with the EU slash pattern before the US one
formats_EuFirst == <<
    <<"%Y", "-", "%m", "-", "%d", "T", "%H", ":", "%M", ":", "%S", ".", "%f", "Z">>,
    <<"%Y", "-", "%m", "-", "%d", "T", "%H", ":", "%M", ":", "%S", "Z">>,
    <<"%Y", "-", "%m", "-", "%d", "T", "%H", ":", "%M", ":", "%S">>,
    <<"%Y", "-", "%m", "-", "%d">>,
    <<"%B", " ", "%d", ",", " ", "%Y">>,
    <<"%b", " ", "%d", ",", " ", "%Y">>,
    <<"%d", "/", "%m", "/", "%Y">>,
    <<"%m", "/", "%d", "/", "%Y">> >>

formats == <<
    <<"%Y", "-", "%m", "-", "%d", "T", "%H", ":", "%M", ":", "%S", ".", "%f", "Z">>,
    <<"%Y", "-", "%m", "-", "%d", "T", "%H", ":", "%M", ":", "%S", "Z">>,
    <<"%Y", "-", "%m", "-", "%d", "T", "%H", ":", "%M", ":", "%S">>,
    <<"%Y", "-", "%m", "-", "%d">>,
    <<"%B", " ", "%d", ",", " ", "%Y">>,
    <<"%b", " ", "%d", ",", " ", "%Y">>,
    <<"%m", "/", "%d", "/", "%Y">>,
    <<"%d", "/", "%m", "/", "%Y">> >>

\* for fmt in formats: try ... except ValueError: continue
RECURSIVE TryFormats(_, _)
TryFormats(s, i) ==
    IF i > Len(formats) THEN None
    ELSE LET r == Strptime(s, formats[i])
         IN  IF r.ok THEN IsoFormat(r.v) ELSE TryFormats(s, i + 1)

parse_date(date_str) ==
    IF date_str = <<>> THEN None ELSE TryFormats(Strip(date_str), 1)

(***************************************************************************)
(* CSS selectors (soup.select_one) as far as the resolvers use them        *)
(***************************************************************************)
SelTag(t)          == [tag |-> t,   mode |-> "tag",   attr |-> "",      val |-> <<>>]
SelClass(c)        == [tag |-> "*", mode |-> "class", attr |-> "class", val |-> c]
SelAttrEq(t, a, v) == [tag |-> t,   mode |-> "eq",    attr |-> a,       val |-> v]
SelAttrHas(t, a)   == [tag |-> t,   mode |-> "has",   attr |-> a,       val |-> <<>>]

\* c is one of the whitespace-separated words of the class attribute
HasClass(n, c) ==
    LET v == GetAttr(n, "class")
    IN  \E i \in 1..Len(v) :
            LET j == i + Len(c) - 1
            IN  /\ j <= Len(v) /\ SubSeq(v, i, j) = c
                /\ (i = 1 \/ IsSpace(v[i - 1]))
                /\ (j = Len(v) \/ IsSpace(v[j + 1]))

Matches(n, sel) ==
    /\ IsTag(n)
    /\ sel.tag = "*" \/ n.name = sel.tag
    /\ CASE sel.mode = "tag"   -> TRUE
         [] sel.mode = "class" -> HasClass(n, sel.val)
         [] sel.mode = "eq"    -> HasAttr(n, sel.attr) /\ GetAttr(n, sel.attr) = sel.val
         [] OTHER              -> HasAttr(n, sel.attr)

\* select_one found nothing
NoNode == El("#none", <<>>, <<>>)

\* soup.select_one(sel): the first match in document order
RECURSIVE SelectOne(_, _)
SelectOne(f, sel) ==
    IF f = <<>> THEN NoNode
    ELSE LET n == Head(f)
             inner == IF IsTag(n) THEN SelectOne(n.kids, sel) ELSE NoNode
         IN  IF Matches(n, sel) THEN n
             ELSE IF inner # NoNode THEN inner
                  ELSE SelectOne(Tail(f), sel)

(***************************************************************************)
(* WixBlogScraper.extract_title                                            *)
(***************************************************************************)
StrPostTitle    == <<"p", "o", "s", "t", "-", "t", "i", "t", "l", "e">>
StrOgTitle      == <<"o", "g", ":", "t", "i", "t", "l", "e">>
StrUntitledPost == <<"U", "n", "t", "i", "t", "l", "e", "d", " ", "P", "o", "s", "t">>
StrHome         == <<"h", "o", "m", "e">>
StrBlog         == <<"b", "l", "o", "g">>
StrMenu         == <<"m", "e", "n", "u">>

OgTitleSelector == SelAttrEq("meta", "property", StrOgTitle)

title_selectors == <<
    SelTag("h1"), SelTag("h2"), SelClass(StrPostTitle),
    SelAttrEq("*", "data-testid", StrPostTitle),
    SelTag("title"), OgTitleSelector >>

MinTitleLen == 3

\* len(title) > 3 and not title.lower().startswith(('home', 'blog', 'menu'))
TitlePasses(title) ==
    /\ Len(title) > MinTitleLen
    /\ ~StartsWith(Lower(title), StrHome)
    /\ ~StartsWith(Lower(title), StrBlog)
    /\ ~StartsWith(Lower(title), StrMenu)

\* what the selector's element yields, or None when the loop goes on
TitleCandidate(soup, sel) ==
    LET elem == SelectOne(soup, sel)
        title == Strip(GetText(elem.kids))
    IN  IF sel = OgTitleSelector
        THEN IF elem # NoNode /\ AttrTruthy(elem, "content")
             THEN Strip(GetAttr(elem, "content")) ELSE None
        ELSE IF elem # NoNode /\ title # <<>> /\ TitlePasses(title)
             THEN title ELSE None

RECURSIVE TitleFrom(_, _)
TitleFrom(soup, i) ==
    IF i > Len(title_selectors) THEN StrUntitledPost
    ELSE IF TitleCandidate(soup, title_selectors[i]) # None
         THEN TitleCandidate(soup, title_selectors[i])
         ELSE TitleFrom(soup, i + 1)

extract_title(soup) == TitleFrom(soup, 1)

(***************************************************************************)
(* WixBlogScraper.extract_date, extract_category                           *)
(***************************************************************************)
StrPostDate      == <<"p", "o", "s", "t", "-", "d", "a", "t", "e">>
StrBlogPostDate  == <<"b", "l", "o", "g", "-", "p", "o", "s", "t", "-", "d", "a", "t", "e">>
StrDate          == <<"d", "a", "t", "e">>
StrPublishedTime == <<"a", "r", "t", "i", "c", "l", "e", ":", "p", "u", "b", "l", "i", "s", "h", "e", "d", "_", "t", "i", "m", "e">>
StrPostCategory  == <<"p", "o", "s", "t", "-", "c", "a", "t", "e", "g", "o", "r", "y">>
StrCategory      == <<"c", "a", "t", "e", "g", "o", "r", "y">>
StrTag           == <<"t", "a", "g">>
StrUncategorized == <<"U", "n", "c", "a", "t", "e", "g", "o", "r", "i", "z", "e", "d">>

date_selectors == <<
    SelAttrHas("time", "datetime"), SelTag("time"), SelClass(StrPostDate),
    SelClass(StrBlogPostDate), SelClass(StrDate),
    SelAttrEq("*", "data-testid", StrPostDate),
    SelAttrEq("meta", "property", StrPublishedTime) >>

\* elem.get('datetime') or elem.get('content') or elem.get_text().strip()
DateVal(elem) ==
    IF AttrTruthy(elem, "datetime") THEN GetAttr(elem, "datetime")
    ELSE IF AttrTruthy(elem, "content") THEN GetAttr(elem, "content")
    ELSE Strip(GetText(elem.kids))

RECURSIVE DateFrom(_, _)
DateFrom(soup, i) ==
    IF i > Len(date_selectors) THEN <<>>
    ELSE LET elem == SelectOne(soup, date_selectors[i])
         IN  IF elem # NoNode /\ DateVal(elem) # <<>>
             THEN IF parse_date(DateVal(elem)) # None
                  THEN parse_date(DateVal(elem))
                  ELSE DateVal(elem)
             ELSE DateFrom(soup, i + 1)

extract_date(soup) == DateFrom(soup, 1)

category_selectors == <<
    SelClass(StrPostCategory), SelClass(StrCategory), SelClass(StrTag),
    SelAttrEq("*", "data-testid", StrPostCategory) >>

RECURSIVE CategoryFrom(_, _)
CategoryFrom(soup, i) ==
    IF i > Len(category_selectors) THEN StrUncategorized
    ELSE LET elem == SelectOne(soup, category_selectors[i])
         IN  IF elem # NoNode /\ Strip(GetText(elem.kids)) # <<>>
             THEN Strip(GetText(elem.kids))
             ELSE CategoryFrom(soup, i + 1)

extract_category(soup) == CategoryFrom(soup, 1)

(***************************************************************************)
(* WixBlogScraper.extract_content                                          *)
(***************************************************************************)
StrPostContent     == <<"p", "o", "s", "t", "-", "c", "o", "n", "t", "e", "n", "t">>
StrBlogPostContent == <<"b", "l", "o", "g", "-", "p", "o", "s", "t", "-", "c", "o", "n", "t", "e", "n", "t">>
StrRichText        == <<"r", "i", "c", "h", "-", "t", "e", "x", "t">>
StrContent         == <<"c", "o", "n", "t", "e", "n", "t">>

content_selectors == <<
    SelClass(StrPostContent), SelClass(StrBlogPostContent),
    SelClass(StrRichText), SelTag("article"), SelClass(StrContent),
    SelTag("main"), SelAttrEq("*", "data-testid", StrPostContent) >>

ContentUnwanted == {"script", "style", "nav", "header", "footer"}
MinContentLen == 100
MinAcceptLen == 100

\* the length of one character once serialized (& < > become entities)
CharLen(c) == IF c = "&" THEN 5 ELSE IF c \in {"<", ">"} THEN 4 ELSE 1

CharsLen(s) ==
    Len(s) + (CharLen("&") - 1) * Cardinality({i \in 1..Len(s) : s[i] = "&"})
           + (CharLen("<") - 1) * Cardinality({i \in 1..Len(s) : s[i] \in {"<", ">"}})

\* the length of ' key="value"' for every attribute
RECURSIVE AttrsLen(_)
AttrsLen(a) ==
    IF a = <<>> THEN 0
    ELSE 1 + Len(Head(a)[1]) + 2 + CharsLen(Head(a)[2]) + 1 + AttrsLen(Tail(a))

TokLen(k) ==
    CASE k.t = "text"  -> CharsLen(k.s)
      [] k.t = "open"  -> 1 + Len(k.name) + AttrsLen(k.attrs) + 1
      [] k.t = "close" -> 2 + Len(k.name) + 1
      [] OTHER         -> 1 + Len(k.name) + AttrsLen(k.attrs)
                          + (IF k.sp THEN 3 ELSE 2)

\* len(html_string)
RECURSIVE StrLen(_)
StrLen(toks) == IF toks = <<>> THEN 0 ELSE TokLen(Head(toks)) + StrLen(Tail(toks))

\* the soup after "for unwanted in elem([...]): unwanted.decompose()" on the
\* first match of sel
RECURSIVE DecomposeInFirst(_, _)
DecomposeInFirst(f, sel) ==
    IF f = <<>> THEN [found |-> FALSE, f |-> <<>>]
    ELSE LET n == Head(f)
             inner == IF IsTag(n) THEN DecomposeInFirst(n.kids, sel)
                      ELSE [found |-> FALSE, f |-> <<>>]
             rest == DecomposeInFirst(Tail(f), sel)
         IN  IF Matches(n, sel)
             THEN [found |-> TRUE,
                   f |-> <<[n EXCEPT !.kids = RemoveNamed(n.kids, ContentUnwanted)]>>
                         \o Tail(f)]
             ELSE IF inner.found
                  THEN [found |-> TRUE,
                        f |-> <<[n EXCEPT !.kids = inner.f]>> \o Tail(f)]
                  ELSE [found |-> rest.found, f |-> <<n>> \o rest.f]

\* the loop of extract_content from selector i on: the returned string and
\* the soup as the loop leaves it
RECURSIVE ContentFrom(_, _)
ContentFrom(soup, i) ==
    IF i > Len(content_selectors) THEN [content |-> <<>>, soup |-> soup]
    ELSE LET soup2 == DecomposeInFirst(soup, content_selectors[i]).f
             elem == SelectOne(soup2, content_selectors[i])
             c == StripTokens(Serialize(<<elem>>))
         IN  IF elem # NoNode /\ StrLen(c) > MinContentLen
             THEN [content |-> c, soup |-> soup2]
             ELSE ContentFrom(soup2, i + 1)

extract_content(soup) == ContentFrom(soup, 1).content

(***************************************************************************)
(* WixBlogScraper.scrape_post                                              *)
(***************************************************************************)
\* the document a failed fetch stands for (the fetch raises)
FetchError == <<El("#error", <<>>, <<>>)>>

PostData(url, soup) ==
    [url |-> url,
     title |-> extract_title(soup),
     publish_date |-> extract_date(soup),
     category |-> extract_category(soup),
     content |-> extract_content(soup)]

\* the gate without its length test
Accepted_TitleOnly(post_data) == post_data.title # StrUntitledPost

\* post_data['title'] != "Untitled Post" and len(post_data['content']) > 100
Accepted(post_data) ==
    post_data.title # StrUntitledPost /\ StrLen(post_data.content) > MinAcceptLen

\* the document scrape_post parses: Selenium first when there is a driver,
\* requests when there is none or when Selenium raised
FetchedSoup(hasDriver, seleniumPage, requestsPage) ==
    IF hasDriver /\ seleniumPage # FetchError THEN seleniumPage ELSE requestsPage

\* scrape_post without the outer try/except: a failed fetch raises
scrape_post_Uncaught(url, hasDriver, seleniumPage, requestsPage) ==
    LET soup == FetchedSoup(hasDriver, seleniumPage, requestsPage)
    IN  IF soup = FetchError
        THEN [ok |-> FALSE, raised |-> TRUE, post |-> PostData(url, <<>>)]
        ELSE [ok |-> Accepted(PostData(url, soup)), raised |-> FALSE,
              post |-> PostData(url, soup)]

\* scrape_post(url): ok is FALSE where it returns None; raised is TRUE where
\* an exception leaves it, which "except Exception" never lets happen
scrape_post(url, hasDriver, seleniumPage, requestsPage) ==
    LET soup == FetchedSoup(hasDriver, seleniumPage, requestsPage)
    IN  IF soup = FetchError
        THEN [ok |-> FALSE, raised |-> FALSE, post |-> PostData(url, <<>>)]
        ELSE [ok |-> Accepted(PostData(url, soup)), raised |-> FALSE,
              post |-> PostData(url, soup)]

(***************************************************************************)
(* create_wordpress_xml                                                    *)
(***************************************************************************)
\* .replace('&', '&amp;').replace('<', '&lt;').replace('>', '&gt;')
RECURSIVE EscapeMarkup(_)
EscapeMarkup(s) ==
    IF s = <<>> THEN <<>>
    ELSE (CASE Head(s) = "&" -> <<"&", "a", "m", "p", ";">>
            [] Head(s) = "<" -> <<"&", "l", "t", ";">>
            [] Head(s) = ">" -> <<"&", "g", "t", ";">>
            [] OTHER -> <<Head(s)>>) \o EscapeMarkup(Tail(s))

\* .replace('Z', '+00:00')
RECURSIVE ReplaceZ(_)
ReplaceZ(s) ==
    IF s = <<>> THEN <<>>
    ELSE (IF Head(s) = "Z" THEN <<"+", "0", "0", ":", "0", "0">> ELSE <<Head(s)>>)
         \o ReplaceZ(Tail(s))

\* a datetime: the broken-down fields and the UTC offset, <<>> when naive,
\* <<sign, hours, minutes>> when aware
Naive(v) == [Y |-> v.Y, m |-> v.m, d |-> v.d, H |-> v.H, M |-> v.M,
             S |-> v.S, f |-> v.f, tz |-> <<>>]
NoDatetime == [Y |-> 0, m |-> 0, d |-> 0, H |-> 0, M |-> 0, S |-> 0, f |-> 0,
               tz |-> <<>>]
ParseFailed == [ok |-> FALSE, dt |-> NoDatetime]

\* the HH[:MM[:SS[.fff[fff]]]] part of datetime.fromisoformat
IsoTime(t) ==
    LET n == Len(t)
        num(i) == NumVal(SubSeq(t, i, i + 1))
        shape ==
            /\ n \in {2, 5, 8, 12, 15}
            /\ AllDigits(t, 1, 2)
            /\ n >= 5 => t[3] = ":" /\ AllDigits(t, 4, 5)
            /\ n >= 8 => t[6] = ":" /\ AllDigits(t, 7, 8)
            /\ n >= 12 => t[9] = "." /\ AllDigits(t, 10, n)
        v == [H |-> num(1),
              M |-> IF n >= 5 THEN num(4) ELSE 0,
              S |-> IF n >= 8 THEN num(7) ELSE 0,
              f |-> IF n >= 12
                    THEN NumVal(SubSeq(t, 10, n)) * Pow10(15 - n) ELSE 0]
    IN  IF shape /\ v.H <= 23 /\ v.M <= 59 /\ v.S <= 59
        THEN [ok |-> TRUE, v |-> v]
        ELSE [ok |-> FALSE, v |-> [H |-> 0, M |-> 0, S |-> 0, f |-> 0]]

\* the +HH:MM part
IsoOffset(z) ==
    IF /\ Len(z) = 6 /\ z[1] \in {"+", "-"} /\ AllDigits(z, 2, 3)
       /\ z[4] = ":" /\ AllDigits(z, 5, 6)
       /\ NumVal(SubSeq(z, 2, 3)) <= 23 /\ NumVal(SubSeq(z, 5, 6)) <= 59
    THEN [ok |-> TRUE,
          tz |-> <<z[1], NumVal(SubSeq(z, 2, 3)), NumVal(SubSeq(z, 5, 6))>>]
    ELSE [ok |-> FALSE, tz |-> <<>>]

\* datetime.fromisoformat(s), the grammar every supported Python accepts:
\* YYYY-MM-DD[*HH[:MM[:SS[.fff[fff]]]][+HH:MM]]; ok is FALSE where it raises
FromIsoFormat(s) ==
    LET n == Len(s)
        dateOk == /\ n >= 10 /\ AllDigits(s, 1, 4) /\ s[5] = "-"
                  /\ AllDigits(s, 6, 7) /\ s[8] = "-" /\ AllDigits(s, 9, 10)
        date == [DefaultFields EXCEPT !.Y = NumVal(SubSeq(s, 1, 4)),
                                      !.m = NumVal(SubSeq(s, 6, 7)),
                                      !.d = NumVal(SubSeq(s, 9, 10))]
        rest == SubSeq(s, 12, n)
        signs == {i \in 1..Len(rest) : rest[i] \in {"+", "-"}}
        cut == IF signs = {} THEN Len(rest) + 1 ELSE SetMin(signs)
        time == IsoTime(SubSeq(rest, 1, cut - 1))
        off == IF signs = {} THEN [ok |-> TRUE, tz |-> <<>>]
               ELSE IsoOffset(SubSeq(rest, cut, Len(rest)))
        all == [date EXCEPT !.H = time.v.H, !.M = time.v.M,
                            !.S = time.v.S, !.f = time.v.f]
    IN  IF ~dateOk \/ ~ValidFields(date) THEN ParseFailed
        ELSE IF n = 10 THEN [ok |-> TRUE, dt |-> Naive(date)]
        ELSE IF n = 11 \/ ~time.ok \/ ~off.ok THEN ParseFailed
        ELSE [ok |-> TRUE, dt |-> [Naive(all) EXCEPT !.tz = off.tz]]

CalendarFormat == <<"%Y", "-", "%m", "-", "%d">>

\* the body of the try block: fromisoformat when the string holds a 'T',
\* strptime(post_date, '%Y-%m-%d') otherwise
ParsePostDate(post_date) ==
    IF Contains(post_date, "T")
    THEN FromIsoFormat(ReplaceZ(post_date))
    ELSE LET r == Strptime(post_date, CalendarFormat)
         IN  IF r.ok THEN [ok |-> TRUE, dt |-> Naive(r.v)] ELSE ParseFailed

\* the date handling without its try/except
ItemDate_NoFallback(post_date, now) ==
    IF post_date = <<>> THEN [raised |-> FALSE, dt |-> now]
    ELSE IF ParsePostDate(post_date).ok
         THEN [raised |-> FALSE, dt |-> ParsePostDate(post_date).dt]
         ELSE [raised |-> TRUE, dt |-> now]

\* dt of one item: raised is TRUE where an exception leaves the function
ItemDate(post_date, now) ==
    IF post_date = <<>> THEN [raised |-> FALSE, dt |-> now]
    ELSE IF ParsePostDate(post_date).ok
         THEN [raised |-> FALSE, dt |-> ParsePostDate(post_date).dt]
         ELSE [raised |-> FALSE, dt |-> now]

\* dt.strftime('%Y-%m-%d %H:%M:%S')
FormatDate(dt) ==
    ZeroPad(dt.Y, 4) \o <<"-">> \o ZeroPad(dt.m, 2) \o <<"-">> \o ZeroPad(dt.d, 2)
    \o <<" ">> \o ZeroPad(dt.H, 2) \o <<":">> \o ZeroPad(dt.M, 2)
    \o <<":">> \o ZeroPad(dt.S, 2)

IsLowerLetter(c) == \E i \in 1..26 : LowerLetters[i] = c
IsUpperLetter(c) == \E i \in 1..26 : UpperLetters[i] = c

\* re.sub(r'[^a-zA-Z0-9\s-]', '', s)
RECURSIVE KeepSlugChars(_)
KeepSlugChars(s) ==
    IF s = <<>> THEN <<>>
    ELSE (IF \/ IsLowerLetter(Head(s)) \/ IsUpperLetter(Head(s))
             \/ IsDigit(Head(s)) \/ IsSpace(Head(s)) \/ Head(s) = "-"
          THEN <<Head(s)>> ELSE <<>>) \o KeepSlugChars(Tail(s))

\* re.sub(r'\s+', '-', s)
RECURSIVE HyphenateSpaces(_)
HyphenateSpaces(s) ==
    IF s = <<>> THEN <<>>
    ELSE IF IsSpace(Head(s))
         THEN IF Len(s) >= 2 /\ IsSpace(s[2]) THEN HyphenateSpaces(Tail(s))
              ELSE <<"-">> \o HyphenateSpaces(Tail(s))
         ELSE <<Head(s)>> \o HyphenateSpaces(Tail(s))

MaxSlugLen == 50

\* lines 565-566, from the title as line 548 left it
SlugOf(title) ==
    LET kept == KeepSlugChars(Lower(title))
        hyph == HyphenateSpaces(Strip(kept))
    IN  SubSeq(hyph, 1, IF Len(hyph) < MaxSlugLen THEN Len(hyph) ELSE MaxSlugLen)

\* the fields of one <item>
XmlItem(i, post, now) ==
    LET title == EscapeMarkup(post.title)
        d == ItemDate(post.publish_date, now)
    IN  [post_id |-> i,
         title |-> title,
         content |-> StripTokens(post.content),
         dt |-> d.dt,
         post_date |-> FormatDate(d.dt),
         post_name |-> SlugOf(title),
         category |-> post.category,
         nicename |-> Lower(post.category),
         raised |-> d.raised]

\* for i, post in enumerate(posts, 1); nows[k] is what datetime.now() returns
\* while the k-th post is processed
RECURSIVE XmlItemsFrom(_, _, _, _)
XmlItemsFrom(posts, k, i, nows) ==
    IF k > Len(posts) THEN <<>>
    ELSE IF XmlItem(i, posts[k], nows[k]).raised THEN <<>>
         ELSE <<XmlItem(i, posts[k], nows[k])>>
              \o XmlItemsFrom(posts, k + 1, i + 1, nows)

\* enumerate(posts) without its start argument
FirstItemId_Zero == 1 - 1

FirstItemId == 1

\* the items create_wordpress_xml writes
create_wordpress_xml(posts, nows) == XmlItemsFrom(posts, 1, FirstItemId, nows)

\* create_wordpress_xml raises: some item's exception left the loop
XmlRaises(posts, nows) ==
    \E k \in 1..Len(posts) : XmlItem(k, posts[k], nows[k]).raised

(***************************************************************************)
(* Body fragments handed to clean_wix_content                              *)
(***************************************************************************)
MaxNodes == 3
MaxRuns == 2

FragLeaves ==
    { Text(<<"a">>), Text(<<" ">>),
      El("img", << <<"src", <<"x">> >>, <<"class", <<"c">> >> >>, <<>>),
      El("br", <<>>, <<>>) }

\* <<tag name, attribute list>> of the elements that hold children
FragContainers ==
    { <<"div", <<>> >>,
      <<"span", << <<"style", <<"s">> >> >> >>,
      <<"span", <<>> >>,
      <<"p", <<>> >>,
      <<"a", << <<"href", <<"u">> >>, <<"target", <<"t">> >> >> >>,
      <<"a", <<>> >>,
      <<"nav", <<>> >> }

RECURSIVE TreesOfSize(_)
RECURSIVE ForestsOfSize(_)
TreesOfSize(n) ==
    (IF n = 1 THEN FragLeaves ELSE {})
    \cup {El(c[1], c[2], k) : c \in FragContainers, k \in ForestsOfSize(n - 1)}
ForestsOfSize(n) ==
    IF n = 0 THEN {<<>>}
    ELSE UNION {{<<t>> \o r : t \in TreesOfSize(k), r \in ForestsOfSize(n - k)}
                : k \in 1..n}

\* the HTML strings of every forest of at most max nodes
Fragments(max) == UNION {{Serialize(f) : f \in ForestsOfSize(n)} : n \in 0..max}

(***************************************************************************)
(* Documents for the title resolver                                        *)
(***************************************************************************)
Unset == <<"unset">>

TxtHome     == <<"H", "o", "m", "e">>
TxtMyPost   == <<" ", "M", "y", " ", "P", "o", "s", "t", " ">>
TxtHi       == <<"H", "i">>
TxtMenuX    == <<"M", "E", "N", "U", " ", "x">>
TxtSecond   == <<"S", "e", "c", "o", "n", "d">>
TxtBlog     == <<"B", "l", "o", "g">>
TxtThird    == <<"T", "h", "i", "r", "d">>
TxtSite     == <<"S", "i", "t", "e">>
TxtOgTitle  == <<"O", "G", " ", "T", "i", "t", "l", "e">>

\* a test case: the text of each candidate element, <<>> when the element is
\* absent; h1b is a second h1 after the first
TitleCases ==
    [h1 : {<<>>, TxtHome, TxtMyPost, TxtHi},
     h1b : {<<>>, TxtSecond},
     h2 : {<<>>, TxtMenuX, TxtSecond},
     cls : {<<>>, TxtBlog, TxtThird},
     ttl : {<<>>, TxtHome, TxtSite},
     og : {<<>>, TxtHome, TxtOgTitle, <<" ">>}]

Opt(t, node) == IF t = <<>> THEN <<>> ELSE <<node>>

\* the parsed document of a test case
TitleDoc(c) ==
    << El("html", <<>>, <<
         El("head", <<>>,
            Opt(c.ttl, El("title", <<>>, <<Text(c.ttl)>>))
            \o Opt(c.og, El("meta", << <<"property", StrOgTitle>>,
                                       <<"content", c.og>> >>, <<>>))),
         El("body", <<>>,
            Opt(c.h1, El("h1", <<>>, <<Text(c.h1)>>))
            \o Opt(c.h1b, El("h1", <<>>, <<Text(c.h1b)>>))
            \o Opt(c.h2, El("h2", <<>>, <<El("span", <<>>, <<Text(c.h2)>>)>>))
            \o Opt(c.cls, El("div", << <<"class", StrPostTitle>> >>,
                             <<Text(c.cls)>>))) >>) >>

NoTitleCase == [h1 |-> <<>>, h1b |-> <<>>, h2 |-> <<>>, cls |-> <<>>,
                ttl |-> <<>>, og |-> <<>>]

(***************************************************************************)
(* Arguments for parse_date                                                *)
(***************************************************************************)
DateYear == 2000 + 21
SlashNums == {0, 3, 4, 12, 13, 31, 32}

\* str(n), or n zero-padded to two digits
NumStr(n, pad) == IF pad \/ n >= 10 THEN ZeroPad(n, 2) ELSE ZeroPad(n, 1)

UpperChar(c) ==
    IF \E i \in 1..26 : LowerLetters[i] = c
    THEN UpperLetters[CHOOSE i \in 1..26 : LowerLetters[i] = c]
    ELSE c
Capitalize(s) == <<UpperChar(Head(s))>> \o Tail(s)

\* a test case: kind says how the argument string is written from a, b
\*   slash  a/b/2021, numbers padded or not
\*   long   "<Month a> b, 2021", month name in full or cut to three letters
\*   iso    2021-a-b in one of the four ISO layouts (form 1..4)
\*   junk   a string that is no date, chosen by a
DateCases ==
    [kind : {"slash"}, a : SlashNums, b : SlashNums, pad : BOOLEAN, form : {0}]
    \cup [kind : {"long"}, a : {3, 5, 12}, b : {3, 31}, pad : BOOLEAN, form : {0}]
    \cup [kind : {"iso"}, a : {2, 3}, b : {3, 30}, pad : {TRUE}, form : 1..4]
    \cup [kind : {"junk"}, a : 1..5, b : {0}, pad : {TRUE}, form : {0}]

TimeOfDay == [H |-> 10, M |-> 5, S |-> 7, f |-> 120000]
StrTimeOfDay == <<"T", "1", "0", ":", "0", "5", ":", "0", "7">>

JunkStrings == << <<>>, <<" ">>, <<"s", "o", "o", "n">>,
                  <<"2", "0", "2", "1", "-", "0", "3", "-", "0", "3", "T", "1", "0", ":", "0", "5", ":", "0", "7", "+", "0", "2", ":", "0", "0">>,
                  <<"3", " ", "M", "a", "r", "c", "h", " ", "2", "0", "2", "1">> >>

\* the argument string of a test case
DateString(c) ==
    CASE c.kind = "slash" ->
            NumStr(c.a, c.pad) \o <<"/">> \o NumStr(c.b, c.pad) \o <<"/">>
            \o ZeroPad(DateYear, 4)
      [] c.kind = "long" ->
            Capitalize(IF c.pad THEN MonthNames[c.a]
                       ELSE SubSeq(MonthNames[c.a], 1, 3))
            \o <<" ">> \o NumStr(c.b, FALSE) \o <<",", " ">>
            \o ZeroPad(DateYear, 4)
      [] c.kind = "iso" ->
            ZeroPad(DateYear, 4) \o <<"-">> \o ZeroPad(c.a, 2) \o <<"-">>
            \o ZeroPad(c.b, 2)
            \o (CASE c.form = 1 -> StrTimeOfDay \o <<".", "1", "2", "Z">>
                  [] c.form = 2 -> StrTimeOfDay \o <<"Z">>
                  [] c.form = 3 -> StrTimeOfDay
                  [] OTHER -> <<>>)
      [] OTHER -> JunkStrings[c.a]

NoDateCase == [kind |-> "junk", a |-> 1, b |-> 0, pad |-> TRUE, form |-> 0]

(***************************************************************************)
(* Pages the scraping loop can fetch                                       *)
(***************************************************************************)
PadText(n) == [i \in 1..n |-> "x"]

\* <div class="post-content">xxx...</div> whose serialization has n
\* characters
BodyTagsLen == Len("<div class=\"post-content\">") + Len("</div>")
BodyOfLen(n) ==
    El("div", << <<"class", StrPostContent>> >>, <<Text(PadText(n - BodyTagsLen))>>)

TxtPost == <<"M", "y", " ", "P", "o", "s", "t">>

\* a test case: h1 is the heading text (<<>>: no heading, only <title>Home);
\* body is "none", "div" (a post-content div of len characters), "nested"
\* (that div inside an <article>) or "error" (the fetch raises)
PageCases ==
    [h1 : {TxtPost}, body : {"none"}, len : {0}]
    \cup [h1 : {TxtPost}, body : {"div"}, len : {100}]
    \cup [h1 : {<<>>, TxtPost}, body : {"div"}, len : {101}]
    \cup [h1 : {TxtPost}, body : {"nested"}, len : {100}]

ErrorCase == [h1 |-> <<>>, body |-> "error", len |-> 0]

\* the parsed document of a test case
PageDoc(c) ==
    IF c.body = "error" THEN FetchError
    ELSE << El("html", <<>>, <<
              El("head", <<>>, <<El("title", <<>>, <<Text(TxtHome)>>)>>),
              El("body", <<>>,
                 Opt(c.h1, El("h1", <<>>, <<Text(c.h1)>>))
                 \o (CASE c.body = "div" -> <<BodyOfLen(c.len)>>
                       [] c.body = "nested" ->
                            <<El("article", <<>>, <<BodyOfLen(c.len)>>)>>
                       [] OTHER -> <<>>)) >>) >>

(***************************************************************************)
(* Posts handed to create_wordpress_xml                                    *)
(***************************************************************************)
MaxPosts == 2

TxtAmp   == <<"A", " ", "&", " ", "B">>
TxtLong  == PadText(48) \o <<" ", "y", " ", "z">>

XmlTitles == {TxtAmp, TxtLong}

\* a publish_date value and what the item's date must be for it: the parsed
\* fields, or "now" for the wall clock
Instant(y, m, d, H, M, S, tz) ==
    [Y |-> y, m |-> m, d |-> d, H |-> H, M |-> M, S |-> S, f |-> 0, tz |-> tz]
XmlDateCases ==
    { [str |-> <<>>, now |-> TRUE, dt |-> NoDatetime],
      [str |-> <<"2", "0", "2", "1", "-", "0", "3", "-", "0", "3", "T", "1", "0", ":", "0", "5", ":", "0", "7">>, now |-> FALSE,
       dt |-> Instant(2021, 3, 3, 10, 5, 7, <<>>)],
      [str |-> <<"2", "0", "2", "1", "-", "0", "3", "-", "0", "3", "T", "1", "0", ":", "0", "5", ":", "0", "7", "Z">>, now |-> FALSE,
       dt |-> Instant(2021, 3, 3, 10, 5, 7, <<"+", 0, 0>>)],
      [str |-> <<"2", "0", "2", "1", "-", "0", "3", "-", "0", "4">>, now |-> FALSE,
       dt |-> Instant(2021, 3, 4, 0, 0, 0, <<>>)],
      [str |-> <<"s", "o", "o", "n">>, now |-> TRUE, dt |-> NoDatetime],
      [str |-> <<"T", "o", "m", "o", "r", "r", "o", "w">>, now |-> TRUE, dt |-> NoDatetime] }

XmlPosts ==
    {[url |-> "u1", title |-> t, publish_date |-> c.str,
      category |-> StrUncategorized,
      content |-> <<TokText(<<" ", "a">>)>>] : t \in XmlTitles, c \in XmlDateCases}

RECURSIVE SeqsOfLen(_, _)
SeqsOfLen(S, n) ==
    IF n = 0 THEN {<<>>}
    ELSE {Append(q, x) : q \in SeqsOfLen(S, n - 1), x \in S}
SeqsUpTo(S, n) == UNION {SeqsOfLen(S, k) : k \in 0..n}

NowVals == {Instant(2026, 11, 2, 9, 30, 0, <<>>), Instant(2026, 11, 2, 9, 30, 1, <<>>)}

(***************************************************************************)
(* Initial values of the variables a specification does not use            *)
(***************************************************************************)
(***************************************************************************)
(* Documents handed to the four resolvers                                  *)
(***************************************************************************)
TxtNews == <<"N", "e", "w", "s">>
TxtDay  == <<"2", "0", "2", "1", "-", "0", "3", "-", "0", "4">>

\* a test case: where the heading, the <time> and the category label are
\* ("none", "top": a child of <body>, or inside the <header>, <footer> or
\* <nav> of the <article>), and whether the article is long enough to be the
\* body
FieldCases ==
    [title : {"none", "top", "header"}, date : {"none", "top", "footer"},
     category : {"none", "top", "nav"}, long : BOOLEAN]

NoFieldCase == [title |-> "idle", date |-> "idle", category |-> "idle", long |-> FALSE]

When(b, node) == IF b THEN <<node>> ELSE <<>>

\* the parsed document of a test case
FieldDoc(c) ==
    LET h1 == El("h1", <<>>, <<Text(TxtPost)>>)
        time == El("time", << <<"datetime", TxtDay>> >>, <<>>)
        label == El("span", << <<"class", StrCategory>> >>, <<Text(TxtNews)>>)
    IN  << El("html", <<>>, <<
              El("body", <<>>,
                 When(c.title = "top", h1) \o When(c.date = "top", time)
                 \o When(c.category = "top", label)
                 \o <<El("article", <<>>,
                         When(c.title = "header", El("header", <<>>, <<h1>>))
                         \o When(c.category = "nav", El("nav", <<>>, <<label>>))
                         \o <<Text(PadText(IF c.long THEN 120 ELSE 10))>>
                         \o When(c.date = "footer", El("footer", <<>>, <<time>>)))>>)
           >>) >>

\* what the resolvers have returned so far, and which have been called
NoFields ==
    [title |-> <<>>, publish_date |-> <<>>, category |-> <<>>, content |-> <<>>,
     called |-> {}]

IdleClean == raw = <<>> /\ content = <<>> /\ prev = <<>> /\ runs = 0
IdleTitle == title_case = NoTitleCase /\ title_out = Unset
IdleDate  == date_in = NoDateCase /\ parsed = Unset
IdleLoop  ==
    /\ cpc = "idle" /\ tree = <<>> /\ changes_made = FALSE /\ iteration = 0
    /\ passes = <<>>
IdleFields == doc_case = NoFieldCase /\ soup_now = <<>> /\ resolved = NoFields
IdleMain  ==
    /\ pc = "idle" /\ driver = FALSE /\ all_urls = <<>> /\ idx = 0
    /\ all_posts = <<>> /\ found = FALSE /\ log = <<>> /\ items = <<>>
    /\ clock = <<>>

(***************************************************************************)
(* Specification Spec: clean_wix_content called on a fragment, then on its *)
(* own output                                                              *)
(***************************************************************************)
Init ==
    /\ raw \in Fragments(MaxNodes)
    /\ content = raw
    /\ prev = <<>>
    /\ runs = 0
    /\ IdleTitle /\ IdleDate /\ IdleMain
    /\ IdleLoop /\ IdleFields

\* content = clean_wix_content(content)
Normalize ==
    /\ runs < MaxRuns
    /\ prev' = content
    /\ content' = clean_wix_content(content)
    /\ runs' = runs + 1
    /\ UNCHANGED <<loopVars, fieldVars, raw, titleVars, dateVars, mainVars>>

Next == Normalize

Spec == Init /\ [][Next]_vars

(***************************************************************************)
(* Specification SpecTitle: extract_title on a parsed document             *)
(***************************************************************************)
InitTitle ==
    /\ title_case \in TitleCases
    /\ title_out = Unset
    /\ IdleClean /\ IdleDate /\ IdleMain
    /\ IdleLoop /\ IdleFields

\* title = self.extract_title(soup)
ResolveTitle ==
    /\ title_out = Unset
    /\ title_out' = extract_title(TitleDoc(title_case))
    /\ UNCHANGED <<loopVars, fieldVars, title_case, cleanVars, dateVars, mainVars>>

NextTitle == ResolveTitle

SpecTitle == InitTitle /\ [][NextTitle]_vars

(***************************************************************************)
(* Specification SpecDate: parse_date on a string                          *)
(***************************************************************************)
InitDate ==
    /\ date_in \in DateCases
    /\ parsed = Unset
    /\ IdleClean /\ IdleTitle /\ IdleMain
    /\ IdleLoop /\ IdleFields

\* parsed = self.parse_date(date_val)
ParseDate ==
    /\ parsed = Unset
    /\ parsed' = parse_date(DateString(date_in))
    /\ UNCHANGED <<loopVars, fieldVars, date_in, cleanVars, titleVars, mainVars>>

NextDate == ParseDate

SpecDate == InitDate /\ [][NextDate]_vars

(***************************************************************************)
(* Specification SpecMain: main() from link discovery to the export file   *)
(***************************************************************************)
MaxUrls == 2
Urls == {"u" \o ToString(i) : i \in 1..MaxUrls}

\* the lists without repetition of the members of S
RECURSIVE Orders(_)
Orders(S) ==
    IF S = {} THEN {<<>>}
    ELSE UNION {{<<x>> \o q : q \in Orders(S \ {x})} : x \in S}

\* what one discovery method can return: list(urls) of a set of URLs
UrlLists == UNION {Orders(S) : S \in SUBSET Urls}

Range(q) == {q[i] : i \in 1..Len(q)}

\* the three lists concatenated instead of collected in a set
get_all_blog_post_urls_Concat(hasDriver, selenium_urls, pagination_urls, requests_urls) ==
    {(IF hasDriver THEN selenium_urls ELSE <<>>) \o pagination_urls \o requests_urls}

\* get_all_blog_post_urls: the lists list(all_urls) can be
get_all_blog_post_urls(hasDriver, selenium_urls, pagination_urls, requests_urls) ==
    Orders(Range(IF hasDriver THEN selenium_urls ELSE <<>>)
           \cup Range(pagination_urls) \cup Range(requests_urls))

\* some URL is in two of the lists
FoundTwice(s, p, r) ==
    \/ Range(s) \cap Range(p) # {}
    \/ Range(s) \cap Range(r) # {}
    \/ Range(p) \cap Range(r) # {}

InitMain ==
    /\ pc = "discover"
    /\ driver \in BOOLEAN
    /\ all_urls = <<>> /\ idx = 0 /\ all_posts = <<>> /\ found = FALSE
    /\ log = <<>> /\ items = <<>> /\ clock = <<>>
    /\ IdleClean /\ IdleTitle /\ IdleDate
    /\ IdleLoop /\ IdleFields

\* all_urls = scraper.get_all_blog_post_urls(); if not all_urls: return
Discover ==
    /\ pc = "discover"
    /\ \E s \in UrlLists, p \in UrlLists, r \in UrlLists :
          /\ all_urls' \in get_all_blog_post_urls(driver, s, p, r)
          /\ found' = FoundTwice(IF driver THEN s ELSE <<>>, p, r)
    /\ pc' = IF all_urls' = <<>> THEN "done" ELSE "scrape"
    /\ idx' = 1
    /\ UNCHANGED <<loopVars, fieldVars, driver, all_posts, log, items, clock,
                   cleanVars, titleVars, dateVars>>

\* what scrape_post logs: error on a failed fetch, info on an accepted
\* record, warning otherwise
Outcome(r, fetchedSoup) ==
    IF r.raised THEN "raised"
    ELSE IF fetchedSoup = FetchError THEN "failed"
    ELSE IF r.ok THEN "scraped" ELSE "skipped"

\* one iteration of "for i, url in enumerate(all_urls, 1)"; after the last
\* one, "if not all_posts: return".  The site holds one page for the URL;
\* each of the two ways to fetch it succeeds or raises.
ScrapeNext ==
    /\ pc = "scrape"
    /\ \E page \in PageCases, seleniumOk \in BOOLEAN, requestsOk \in BOOLEAN :
      \E sc \in {IF seleniumOk THEN page ELSE ErrorCase},
         rc \in {IF requestsOk THEN page ELSE ErrorCase} :
      \E r \in {scrape_post(all_urls[idx], driver, PageDoc(sc), PageDoc(rc))} :
          LET url == all_urls[idx]
              used == IF driver /\ sc # ErrorCase THEN sc ELSE rc
          IN  /\ all_posts' = IF r.ok THEN Append(all_posts, r.post) ELSE all_posts
              /\ log' = Append(log,
                    [url |-> url,
                     outcome |-> Outcome(r, FetchedSoup(driver, PageDoc(sc), PageDoc(rc))),
                     fetched |-> used,
                     rawlen |-> StrLen(r.post.content)])
              /\ pc' = IF r.raised THEN "error"
                       ELSE IF idx < Len(all_urls) THEN "scrape"
                       ELSE IF all_posts' = <<>> THEN "done" ELSE "clean"
    /\ idx' = idx + 1
    /\ UNCHANGED <<loopVars, fieldVars, driver, all_urls, found, items, clock,
                   cleanVars, titleVars, dateVars>>

\* for post in all_posts: post['content'] = clean_wix_content(...)
CleanPosts ==
    /\ pc = "clean"
    /\ all_posts' = [i \in 1..Len(all_posts) |->
                        [all_posts[i] EXCEPT !.content = clean_wix_content(@)]]
    /\ pc' = "save"
    /\ UNCHANGED <<loopVars, fieldVars, driver, all_urls, idx, found, log, items, clock,
                   cleanVars, titleVars, dateVars>>

\* create_wordpress_xml(all_posts, xml_file)
WriteXml ==
    /\ pc = "save"
    /\ clock' \in [1..Len(all_posts) -> NowVals]
    /\ items' = create_wordpress_xml(all_posts, clock')
    /\ pc' = IF XmlRaises(all_posts, clock') THEN "error" ELSE "done"
    /\ UNCHANGED <<loopVars, fieldVars, driver, all_urls, idx, all_posts, found, log,
                   cleanVars, titleVars, dateVars>>

NextMain == Discover \/ ScrapeNext \/ CleanPosts \/ WriteXml

SpecMain == InitMain /\ [][NextMain]_vars

(***************************************************************************)
(* Specification SpecXml: create_wordpress_xml on a list of posts          *)
(***************************************************************************)
InitXml ==
    /\ pc = "save"
    /\ all_posts \in SeqsUpTo(XmlPosts, MaxPosts)
    /\ driver = FALSE /\ all_urls = <<>> /\ idx = 0 /\ found = FALSE
    /\ log = <<>> /\ items = <<>> /\ clock = <<>>
    /\ IdleClean /\ IdleTitle /\ IdleDate
    /\ IdleLoop /\ IdleFields

NextXml == WriteXml

SpecXml == InitXml /\ [][NextXml]_vars

(***************************************************************************)
(* Specification SpecDivs: one call of clean_wix_content, the while loop   *)
(* of lines 443-466 taken one pass at a time                               *)
(***************************************************************************)
MaxDivNodes == 4
DivLeaves == {Text(<<"a">>)}
DivContainers == {"div", "p", "span"}

RECURSIVE DivTrees(_)
RECURSIVE DivForests(_)
DivTrees(n) ==
    (IF n = 1 THEN DivLeaves ELSE {})
    \cup {El(c, <<>>, k) : c \in DivContainers, k \in DivForests(n - 1)}
DivForests(n) ==
    IF n = 0 THEN {<<>>}
    ELSE UNION {{<<t>> \o r : t \in DivTrees(k), r \in DivForests(n - k)}
                : k \in 1..n}

\* a div of k empty paragraphs
WideDiv(k) == <<El("div", <<>>, [i \in 1..k |-> El("p", <<>>, <<>>)])>>

\* the HTML strings of every forest of at most max nodes, and of a div with
\* as many children as the loop accepts, and with one more
DivFragments(max) ==
    UNION {{Serialize(f) : f \in DivForests(n)} : n \in 0..max}
    \cup {Serialize(WideDiv(MaxDivChildren)), Serialize(WideDiv(MaxDivChildren + 1))}

InitDivs ==
    /\ raw \in DivFragments(MaxDivNodes)
    /\ content = raw
    /\ prev = <<>>
    /\ runs = 0
    /\ cpc = "start"
    /\ tree = <<>> /\ changes_made = FALSE /\ iteration = 0 /\ passes = <<>>
    /\ IdleTitle /\ IdleDate /\ IdleMain /\ IdleFields

\* lines 405-441: the early return, the parse, the passes before the loop
\* and the loop's initial values
BeginClean ==
    /\ cpc = "start"
    /\ IF content = <<>>
       THEN /\ cpc' = "done"
            /\ prev' = content
            /\ runs' = runs + 1
            /\ UNCHANGED <<content, tree, changes_made, iteration, passes>>
       ELSE /\ tree' = UnwrapFigures(StripAttrs(RemoveSvg(
                           RemoveNamed(Parse(content), UnwantedTags))))
            /\ changes_made' = TRUE
            /\ iteration' = 0
            /\ passes' = <<tree'>>
            /\ cpc' = "loop"
            /\ UNCHANGED <<content, prev, runs>>
    /\ UNCHANGED <<raw, titleVars, dateVars, mainVars, fieldVars>>

\* lines 443-466: one iteration of the while loop
DivLoopPass ==
    /\ cpc = "loop"
    /\ changes_made /\ iteration < max_iterations
    /\ changes_made' = AnyDivUnwraps(tree)
    /\ iteration' = iteration + 1
    /\ tree' = DivPass(tree)
    /\ passes' = Append(passes, tree')
    /\ UNCHANGED <<cpc, cleanVars, titleVars, dateVars, mainVars, fieldVars>>

\* lines 468-518: the loop has ended; the later passes, the re.sub calls
\* and the return
FinishClean ==
    /\ cpc = "loop"
    /\ ~(changes_made /\ iteration < max_iterations)
    /\ content' = PostProcess(Serialize(RemoveEmptyElements(CleanLinks(
                      RemoveEmptyParagraphs(CleanSpans(tree))))))
    /\ prev' = content
    /\ runs' = runs + 1
    /\ cpc' = "done"
    /\ UNCHANGED <<raw, tree, changes_made, iteration, passes,
                   titleVars, dateVars, mainVars, fieldVars>>

NextDivs == BeginClean \/ DivLoopPass \/ FinishClean

SpecDivs == InitDivs /\ [][NextDivs]_vars

(***************************************************************************)
(* Specification SpecFields: the four resolvers of WixBlogScraper called   *)
(* on one parsed document, each once                                       *)
(***************************************************************************)
InitFields ==
    /\ doc_case \in FieldCases
    /\ soup_now = FieldDoc(doc_case)
    /\ resolved = NoFields
    /\ IdleClean /\ IdleTitle /\ IdleDate /\ IdleMain /\ IdleLoop

\* self.extract_title(soup)
CallExtractTitle ==
    /\ "title" \notin resolved.called
    /\ resolved' = [resolved EXCEPT !.title = extract_title(soup_now),
                                    !.called = @ \cup {"title"}]
    /\ UNCHANGED <<doc_case, soup_now, cleanVars, titleVars, dateVars, mainVars, loopVars>>

\* self.extract_date(soup)
CallExtractDate ==
    /\ "publish_date" \notin resolved.called
    /\ resolved' = [resolved EXCEPT !.publish_date = extract_date(soup_now),
                                    !.called = @ \cup {"publish_date"}]
    /\ UNCHANGED <<doc_case, soup_now, cleanVars, titleVars, dateVars, mainVars, loopVars>>

\* self.extract_category(soup)
CallExtractCategory ==
    /\ "category" \notin resolved.called
    /\ resolved' = [resolved EXCEPT !.category = extract_category(soup_now),
                                    !.called = @ \cup {"category"}]
    /\ UNCHANGED <<doc_case, soup_now, cleanVars, titleVars, dateVars, mainVars, loopVars>>

\* self.extract_content(soup): the returned string, and the soup with the
\* elements the loop decomposed gone
CallExtractContent ==
    /\ "content" \notin resolved.called
    /\ \E r \in {ContentFrom(soup_now, 1)} :
          /\ resolved' = [resolved EXCEPT !.content = r.content,
                                          !.called = @ \cup {"content"}]
          /\ soup_now' = r.soup
    /\ UNCHANGED <<doc_case, cleanVars, titleVars, dateVars, mainVars, loopVars>>

NextFields ==
    \/ CallExtractTitle
    \/ CallExtractDate
    \/ CallExtractCategory
    \/ CallExtractContent

SpecFields == InitFields /\ [][NextFields]_vars

(***************************************************************************)
(* Properties of clean_wix_content (Spec)                                  *)
(***************************************************************************)
\* C1: normalizing the output of the normalizer gives that output again:
\* after the second call the string is the one the second call was given.
NormalizerIdempotent == runs >= 2 => content = prev

\* the src values of the img elements of a forest, in document order
RECURSIVE ImgSrcs(_)
ImgSrcs(f) ==
    IF f = <<>> THEN <<>>
    ELSE LET n == Head(f)
         IN  (IF IsTag(n) /\ n.name = "img" /\ HasAttr(n, "src")
              THEN <<GetAttr(n, "src")>> ELSE <<>>)
             \o (IF IsTag(n) THEN ImgSrcs(n.kids) ELSE <<>>)
             \o ImgSrcs(Tail(f))

CountOf(q, x) == Cardinality({i \in 1..Len(q) : q[i] = x})

RemovedSubtrees == {"script", "style", "nav", "header", "footer"}

\* C2: every image of the input that is not inside a script, style, nav,
\* header or footer subtree is in the output with the same src value: each
\* src value occurs in the output at least as often as among those images.
ImagesPreserved ==
    runs = 1 =>
        LET before == ImgSrcs(RemoveNamed(Parse(raw), RemovedSubtrees))
            after == ImgSrcs(Parse(content))
        IN  \A i \in 1..Len(before) :
                CountOf(after, before[i]) >= CountOf(before, before[i])

(***************************************************************************)
(* Properties of the scraping loop (SpecMain)                              *)
(***************************************************************************)
\* the title a page case resolves to is the sentinel exactly when it has no
\* heading: its <title> is "Home"
CaseTitled(c) == c.h1 # <<>>

\* the serialized lengths of the body candidates of a page case, in the
\* order the body resolver meets them: the post-content div, then the
\* <article> around it
ArticleTagsLen == Len("<article>") + Len("</article>")
CaseBodyLens(c) ==
    CASE c.body = "div" -> <<c.len>>
      [] c.body = "nested" -> <<c.len, c.len + ArticleTagsLen>>
      [] OTHER -> <<>>

\* the length of the raw body of a page case: that of the first candidate
\* longer than 100 characters, 0 when there is none
CaseRawLen(c) ==
    LET lens == CaseBodyLens(c)
        long == {i \in 1..Len(lens) : lens[i] > 100}
    IN  IF long = {} THEN 0 ELSE lens[SetMin(long)]

\* C3: a fetched page gives a record exactly when its title is not the
\* sentinel and its raw body is longer than 100 characters; the raw body of
\* a 100-character candidate is not taken, that of a 101-character one is.
AcceptanceGate ==
    \A i \in 1..Len(log) :
        log[i].fetched # ErrorCase =>
            /\ log[i].rawlen = CaseRawLen(log[i].fetched)
            /\ log[i].outcome = "scraped"
                   <=> (CaseTitled(log[i].fetched) /\ log[i].rawlen > 100)
            /\ log[i].outcome = "scraped"
                   <=> \E k \in 1..Len(all_posts) : all_posts[k].url = log[i].url

\* a 101-character body with a heading was accepted and a 100-character
\* one with a heading was rejected
AcceptanceGateWitness ==
    /\ \E i \in 1..Len(log) :
          /\ log[i].fetched = [h1 |-> TxtPost, body |-> "div", len |-> 101]
          /\ log[i].outcome = "scraped"
    /\ \E i \in 1..Len(log) :
          /\ log[i].fetched = [h1 |-> TxtPost, body |-> "div", len |-> 100]
          /\ log[i].outcome = "skipped"

LoopOver == pc \in {"clean", "save", "done"}

\* C4: a failed fetch never ends the loop: the run never stops on an error,
\* the calls made so far are one per locator in list order, once the loop is
\* over every locator has had its call, a failed fetch leaves no record and
\* every fetched page that passes the gate leaves its record.
FetchFailureIsolated ==
    /\ pc # "error"
    /\ pc # "discover" => Len(log) = idx - 1
    /\ \A i \in 1..Len(log) : log[i].url = all_urls[i]
    /\ LoopOver => Len(log) = Len(all_urls)
    /\ \A i \in 1..Len(log) :
          /\ log[i].fetched = ErrorCase =>
                ~\E k \in 1..Len(all_posts) : all_posts[k].url = log[i].url
          /\ (/\ log[i].fetched # ErrorCase /\ CaseTitled(log[i].fetched)
              /\ CaseRawLen(log[i].fetched) > 100) =>
                \E k \in 1..Len(all_posts) : all_posts[k].url = log[i].url

\* the first fetch failed and the run still exported the second locator
FetchFailureWitness ==
    /\ pc = "done" /\ Len(log) = 2 /\ Len(items) = 1
    /\ log[1].fetched = ErrorCase /\ log[1].outcome = "failed"
    /\ log[2].outcome = "scraped"

\* C10: each distinct locator is scraped at most once: no two calls of
\* scrape_post and no two records have the same URL, and the export has no
\* more items than there are records.
LocatorsUnique ==
    /\ \A i, j \in 1..Len(log) : i # j => log[i].url # log[j].url
    /\ \A i, j \in 1..Len(all_posts) : i # j => all_posts[i].url # all_posts[j].url
    /\ Len(items) <= Len(all_posts)
    /\ Len(all_posts) <= Cardinality(Range(all_urls))

\* a locator was found by two methods, and the run went on to export two
\* records
LocatorsUniqueWitness == pc = "done" /\ Len(items) = 2 /\ found

(***************************************************************************)
(* Properties of extract_title (SpecTitle)                                 *)
(***************************************************************************)
\* the chain of candidates of a title case, in resolver order; the two
\* attribute hooks are one element in the test documents
CaseChain(c) == <<Strip(c.h1), Strip(c.h2), Strip(c.cls), Strip(c.ttl), Strip(c.og)>>

ChromeTitle(t) ==
    \/ Len(t) < 4
    \/ StartsWith(Lower(t), StrHome)
    \/ StartsWith(Lower(t), StrBlog)
    \/ StartsWith(Lower(t), StrMenu)

\* C5: the resolved title is never shorter than 4 characters nor starts
\* with home, blog or menu; it is the earliest candidate of the chain that
\* is present and passes, the sentinel when there is none.
TitleNeverChrome ==
    title_out # Unset =>
        LET chain == CaseChain(title_case)
            passing == {i \in 1..Len(chain) : ~ChromeTitle(chain[i])}
        IN  /\ ~ChromeTitle(title_out)
            /\ title_out = IF passing = {} THEN StrUntitledPost
                           ELSE chain[SetMin(passing)]

(***************************************************************************)
(* Properties of parse_date (SpecDate)                                     *)
(***************************************************************************)
\* the ISO string of a date at midnight, or at TimeOfDay
IsoOf(m, d, timed, frac) ==
    ZeroPad(DateYear, 4) \o <<"-">> \o ZeroPad(m, 2) \o <<"-">> \o ZeroPad(d, 2)
    \o (IF timed THEN StrTimeOfDay ELSE <<"T", "0", "0", ":", "0", "0", ":", "0", "0">>)
    \o (IF frac THEN <<".", "1", "2", "0", "0", "0", "0">> ELSE <<>>)

RealDate(m, d) == m \in 1..12 /\ d \in 1..DaysIn(DateYear, m)

\* what the ordered pattern list must give for a test case
ExpectedDate(c) ==
    CASE c.kind = "slash" ->
            IF RealDate(c.a, c.b) THEN IsoOf(c.a, c.b, FALSE, FALSE)
            ELSE IF RealDate(c.b, c.a) THEN IsoOf(c.b, c.a, FALSE, FALSE)
            ELSE None
      [] c.kind = "long" ->
            IF RealDate(c.a, c.b) THEN IsoOf(c.a, c.b, FALSE, FALSE) ELSE None
      [] c.kind = "iso" ->
            IF RealDate(c.a, c.b)
            THEN IsoOf(c.a, c.b, c.form # 4, c.form = 1)
            ELSE None
      [] OTHER -> None

SlashCase(a, b) == [kind |-> "slash", a |-> a, b |-> b, pad |-> TRUE, form |-> 0]

\* C6: the patterns are tried in the fixed order and the first that parses
\* wins: a slash date is month/day when that is a real date and day/month
\* only when it is not, 03/04/2021 is the 4th of March, "March 3, 2021" is
\* 2021-03-03T00:00:00, and an empty or unparsable input gives None.
DateOrderPolicy ==
    parsed # Unset =>
        /\ parsed = ExpectedDate(date_in)
        /\ date_in = SlashCase(3, 4) => parsed = <<"2", "0", "2", "1", "-", "0", "3", "-", "0", "4", "T", "0", "0", ":", "0", "0", ":", "0", "0">>
        /\ (date_in.kind = "long" /\ date_in.a = 3 /\ date_in.b = 3 /\ date_in.pad)
              => parsed = <<"2", "0", "2", "1", "-", "0", "3", "-", "0", "3", "T", "0", "0", ":", "0", "0", ":", "0", "0">>
        /\ date_in.kind = "junk" => parsed = None

\* 03/04/2021 was parsed month first, and 13/04/2021, which is no US date,
\* day first
DateOrderWitness ==
    \/ date_in = SlashCase(3, 4) /\ parsed = IsoOf(3, 4, FALSE, FALSE)
    \/ date_in = SlashCase(13, 4) /\ parsed = IsoOf(4, 13, FALSE, FALSE)

(***************************************************************************)
(* Properties of create_wordpress_xml (SpecXml)                            *)
(***************************************************************************)
\* C7: one item per record, in input order, the k-th item with identifier k.
ItemsFollowInput ==
    pc = "done" =>
        /\ Len(items) = Len(all_posts)
        /\ \A k \in 1..Len(items) :
              /\ items[k].post_id = k
              /\ items[k].title = EscapeMarkup(all_posts[k].title)
              /\ items[k].category = all_posts[k].category

\* two different records were written
ItemsFollowInputWitness ==
    /\ pc = "done" /\ Len(items) = 2
    /\ all_posts[1].title # all_posts[2].title
    /\ items[2].post_id = 2

\* the slug rule applied to a title as the record holds it
TitleSlug(t) ==
    LET hyph == HyphenateSpaces(Strip(KeepSlugChars(Lower(t))))
    IN  SubSeq(hyph, 1, IF Len(hyph) < 50 THEN Len(hyph) ELSE 50)

\* C8: the slug of an item is the slug rule applied to the record's title
\* (so the escaping of & < > adds nothing to it), and it is at most 50
\* characters of a-z, 0-9 and hyphen.
SlugFromTitle ==
    pc = "done" =>
        \A k \in 1..Len(items) :
            /\ items[k].post_name = TitleSlug(all_posts[k].title)
            /\ Len(items[k].post_name) <= 50
            /\ \A i \in 1..Len(items[k].post_name) :
                  LET ch == items[k].post_name[i]
                  IN  IsLowerLetter(ch) \/ IsDigit(ch) \/ ch = "-"

\* the case of a publish_date value
DateCaseOf(str) == CHOOSE c \in XmlDateCases : c.str = str

\* C9: every publish_date value is tolerated: serialization never raises,
\* every record gets its item, and the item's date is the parsed instant
\* when the value is an ISO timestamp or a calendar date and the wall clock
\* when it is empty or anything else.
DatesTolerated ==
    /\ pc # "error"
    /\ pc = "done" =>
          /\ Len(items) = Len(all_posts)
          /\ \A k \in 1..Len(items) :
                LET c == DateCaseOf(all_posts[k].publish_date)
                IN  items[k].dt = IF c.now THEN clock[k] ELSE c.dt

\* a record with an unparsable date and one with an ISO date were written
DatesToleratedWitness ==
    /\ pc = "done" /\ Len(items) = 2
    /\ all_posts[1].publish_date = <<"T", "o", "m", "o", "r", "r", "o", "w">>
    /\ items[1].dt = clock[1]
    /\ all_posts[2].publish_date = <<"2", "0", "2", "1", "-", "0", "3", "-", "0", "3", "T", "1", "0", ":", "0", "5", ":", "0", "7", "Z">>
    /\ items[2].dt.Y = 2021

(***************************************************************************)
(* Properties of the anchors and spans of clean_wix_content (Spec)         *)
(***************************************************************************)
\* the elements named name of a forest, in document order
RECURSIVE ElementsNamed(_, _)
ElementsNamed(f, name) ==
    IF f = <<>> THEN <<>>
    ELSE LET n == Head(f)
         IN  (IF IsTag(n) /\ n.name = name THEN <<n>> ELSE <<>>)
             \o (IF IsTag(n) THEN ElementsNamed(n.kids, name) ELSE <<>>)
             \o ElementsNamed(Tail(f), name)

\* the elements named name that hold non-blank text and are outside the
\* subtrees the first pass removes
TextBearing(f, name) ==
    LET all == ElementsNamed(RemoveNamed(f, UnwantedTags), name)
    IN  SelectSeq(all, LAMBDA n : GetTextStrip(n.kids) # <<>>)

HrefsOf(q) == [i \in 1..Len(q) |-> GetAttr(q[i], "href")]

\* C11: every anchor of the input that has an href (and text) is an anchor
\* of the output with that href, each href value at least as often as in
\* the input; an anchor of the output has the href attribute and no other;
\* an anchor without href is unwrapped to its text.
AnchorsKeepHref ==
    runs = 1 =>
        LET withHref == SelectSeq(TextBearing(Parse(raw), "a"),
                                  LAMBDA n : HasAttr(n, "href"))
            before == HrefsOf(withHref)
            out == ElementsNamed(Parse(content), "a")
            after == HrefsOf(SelectSeq(out, LAMBDA n : HasAttr(n, "href")))
        IN  /\ \A i \in 1..Len(before) :
                  CountOf(after, before[i]) >= CountOf(before, before[i])
            /\ \A i \in 1..Len(out) :
                  out[i].attrs = << <<"href", GetAttr(out[i], "href")>> >>
            /\ raw = Serialize(<<El("a", <<>>, <<Text(<<"a">>)>>)>>)
                  => content = <<TokText(<<"a">>)>>

\* C12: a span with non-blank text and a style attribute stays a span of
\* the output: the output has at least as many spans as the input has such
\* spans; a span with text and no attribute is unwrapped to its text.
StyledSpansKept ==
    runs = 1 =>
        LET styled == SelectSeq(TextBearing(Parse(raw), "span"),
                                LAMBDA n : HasAttr(n, "style"))
            out == ElementsNamed(Parse(content), "span")
        IN  /\ Len(out) >= Len(styled)
            /\ raw = Serialize(<<El("span", <<>>, <<Text(<<"a">>)>>)>>)
                  => content = <<TokText(<<"a">>)>>

(***************************************************************************)
(* Properties of the div loop of clean_wix_content (SpecDivs)              *)
(***************************************************************************)
\* a div the loop's rule unwraps: at most 5 children, and exactly one child
\* or a child that is a p, h1-h6, figure, img, ul, ol, blockquote, strong,
\* em or a
Collapsible(n) ==
    /\ n.name = "div"
    /\ Len(n.kids) <= 5
    /\ \/ Len(n.kids) = 1
       \/ \E i \in 1..Len(n.kids) :
             n.kids[i].name \in {"p", "h1", "h2", "h3", "h4", "h5", "h6",
                                 "figure", "img", "ul", "ol", "blockquote",
                                 "strong", "em", "a"}

RECURSIVE HasCollapsible(_)
HasCollapsible(f) ==
    \E i \in 1..Len(f) :
        IsTag(f[i]) /\ (Collapsible(f[i]) \/ HasCollapsible(f[i].kids))

NestedDivsInput ==
    Serialize(<<El("div", <<>>, <<El("div", <<>>,
                  <<El("p", <<>>, <<Text(<<"a">>)>>)>>)>>)>>)

\* C13: the loop makes at most 15 passes; every pass that is followed by
\* another one unwrapped something; when the loop ends before the cap its
\* last pass unwrapped nothing and no div of the tree is one the rule
\* unwraps; <div><div><p>a</p></div></div> normalizes to <p>a</p>.
DivLoopStopsAtFixedPoint ==
    /\ iteration <= 15
    /\ cpc \in {"loop", "done"} /\ raw # <<>> => Len(passes) = iteration + 1
    /\ \A k \in 1..(Len(passes) - 2) : passes[k + 1] # passes[k]
    /\ (cpc = "done" /\ raw # <<>> /\ iteration < 15) =>
          /\ iteration >= 1
          /\ passes[iteration + 1] = passes[iteration]
          /\ tree = passes[iteration + 1]
          /\ ~HasCollapsible(tree)
    /\ (cpc = "done" /\ raw = NestedDivsInput) =>
          content = Serialize(<<El("p", <<>>, <<Text(<<"a">>)>>)>>)

\* a call whose loop made two passes that unwrapped a div and a third that
\* unwrapped none
DivLoopWitness ==
    /\ cpc = "done" /\ iteration = 3
    /\ passes[2] # passes[1] /\ passes[3] # passes[2] /\ passes[4] = passes[3]

(***************************************************************************)
(* Properties of the four resolvers (SpecFields)                           *)
(***************************************************************************)
\* what the title, date and category resolvers give on the document of a
\* test case as it was parsed
CaseTitle(c) == IF c.title = "none" THEN StrUntitledPost ELSE TxtPost
CaseDate(c) ==
    IF c.date = "none" THEN <<>>
    ELSE TxtDay \o <<"T", "0", "0", ":", "0", "0", ":", "0", "0">>
CaseCategory(c) == IF c.category = "none" THEN StrUncategorized ELSE TxtNews

\* C14: the resolvers leave the document as it was parsed, and the title,
\* the date and the category are those of that document whether the body
\* resolver has been called before them or not.
ResolversIndependent ==
    /\ soup_now = FieldDoc(doc_case)
    /\ "title" \in resolved.called => resolved.title = CaseTitle(doc_case)
    /\ "publish_date" \in resolved.called
          => resolved.publish_date = CaseDate(doc_case)
    /\ "category" \in resolved.called
          => resolved.category = CaseCategory(doc_case)

====
